---- MODULE Spec2Model ----
(***************************************************************************)
(* A model of the html.js rendering engine (quayjs): the data store        *)
(* behind the Proxy (get / set / deepMerge), the binding registry, the     *)
(* recursive renderer and the attribute application routine.               *)
(*                                                                         *)
(* Conventions.  A JavaScript string is a sequence of tokens: a character  *)
(* ("p", ".", "(") or, where the code never looks inside it, a whole word  *)
(* ("native").  A JavaScript value is a record [t, s, f, ks]: t is the     *)
(* type tag, s the string content, f the own properties and ks the keys    *)
(* in insertion order where the code depends on the order (descriptors).   *)
(* The variable proto holds the properties the program has added to        *)
(* Object.prototype, which every object of the process inherits.           *)
(***************************************************************************)
EXTENDS Integers, Sequences, FiniteSets, TLC

VARIABLES isServer, data, bindings, dom, roots, count, last, proto

vars == <<isServer, data, bindings, dom, roots, count, last, proto>>

---------------------------------------------------------------------------
(* JavaScript values *)

V(t, s, f) == [t |-> t, s |-> s, f |-> f, ks |-> <<>>]

Undefined == V("undefined", <<>>, <<>>)

Null == V("null", <<>>, <<>>)

Str(s) == V("string", s, <<>>)

Num(s) == V("number", s, <<>>)

Bool(b) == V("boolean", IF b THEN <<"true">> ELSE <<"false">>, <<>>)

NativeFn(name) == V("function", <<"native", name>>, <<>>)

Obj(f) == V("object", <<>>, f)

EmptyObj == Obj(<<>>)

\* the key of array index i ("0", "1", ...)
IdxKey(i) == <<ToString(i)>>

Arr(items) ==
  V("array", <<>>,
    [k \in {IdxKey(i) : i \in 0..(Len(items) - 1)} |->
       items[(CHOOSE i \in 0..(Len(items) - 1) : IdxKey(i) = k) + 1]])

\* a raised exception, as the outcome of an expression
Throw(name) == V("throw", <<name>>, <<>>)

ObjectPrototype == V("object", <<"Object.prototype">>, <<>>)

\* names every plain object inherits from Object.prototype
ObjectProtoKeys ==
  {<<"c","o","n","s","t","r","u","c","t","o","r">>, <<"t","o","S","t","r","i","n","g">>,
   <<"_","_","p","r","o","t","o","_","_">>}

ProtoKey == <<"_","_","p","r","o","t","o","_","_">>

LengthKey == <<"l","e","n","g","t","h">>

\* an object literal whose key order matters: a descriptor, a style object
Desc(keys, vals) ==
  [t |-> "descriptor", s |-> <<>>, ks |-> keys,
   f |-> [k \in {keys[i] : i \in 1..Len(keys)} |->
            vals[CHOOSE i \in 1..Len(keys) : keys[i] = k]]]

\* a function, identified by its source text
Fn(src) == V("function", src, <<>>)

\* a function that refers to names of the scope it was written in: its
\* source text and the values of those names
Closure(src, scope) == V("function", src, scope)

IsObject(v) == v.t \in {"object", "array", "descriptor"}

IsNullish(v) == v.t \in {"null", "undefined"}

\* JavaScript truthiness
Truthy(v) ==
  CASE v.t \in {"null", "undefined"} -> FALSE
    [] v.t = "string" -> v.s # <<>>
    [] v.t = "number" -> v.s # <<"0">>
    [] v.t = "boolean" -> v.s = <<"true">>
    [] OTHER -> TRUE

\* what a name inherited from a prototype evaluates to
Inherited(v, key) ==
  IF key = ProtoKey
  THEN (IF v.s = <<"Object.prototype">> THEN Null ELSE ObjectPrototype)
  ELSE NativeFn(key[1])

\* v[key] when v has no own property key: what Object.prototype was given,
\* else what it has of its own, else undefined
Chained(v, key) ==
  IF key \in DOMAIN proto.f THEN proto.f[key]
  ELSE IF key \in ObjectProtoKeys THEN Inherited(v, key)
  ELSE Undefined

\* v[key]: own property, else the prototype chain, else undefined;
\* a TypeError on null and undefined
GetProp(v, key) ==
  CASE IsNullish(v) -> Throw("TypeError")
    [] v.t = "throw" -> v
    [] IsObject(v) ->
         IF key \in DOMAIN v.f THEN v.f[key]
         ELSE IF v.t = "array" /\ key = LengthKey
           THEN Num(<<ToString(Cardinality(DOMAIN v.f))>>)
         ELSE Chained(v, key)
    [] v.t = "string" ->
         IF key = LengthKey THEN Num(<<ToString(Len(v.s))>>)
         ELSE IF \E i \in 1..Len(v.s) : IdxKey(i - 1) = key
           THEN Str(<<v.s[(CHOOSE i \in 1..Len(v.s) : IdxKey(i - 1) = key)]>>)
         ELSE Chained(v, key)
    [] OTHER -> Chained(v, key)

\* the own enumerable keys of v
OwnKeys(v) ==
  CASE IsObject(v) -> DOMAIN v.f
    [] v.t = "string" -> {IdxKey(i - 1) : i \in 1..Len(v.s)}
    [] OTHER -> {}

\* the keys a for-in loop over v enumerates: the own ones and the
\* enumerable ones Object.prototype was given
ForInKeys(v) ==
  IF IsNullish(v) \/ v.t = "throw" THEN {} ELSE OwnKeys(v) \cup DOMAIN proto.f

\* { ...v }: a fresh plain object with the own enumerable properties of v
Spread(v) == Obj([k \in OwnKeys(v) |-> GetProp(v, k)])

---------------------------------------------------------------------------
(* The data store *)

\* target gains no own property __proto__ from a merge: target.__proto__
\* is Object.prototype, which is merged into or assigned to in its place
Gained(target, source) ==
  IF ProtoKey \in DOMAIN target.f THEN ForInKeys(source) ELSE ForInKeys(source) \ {ProtoKey}

RECURSIVE deepMerge(_, _)
deepMerge(target, source) ==
  Obj([key \in (DOMAIN target.f) \cup Gained(target, source) |->
         IF key \in ForInKeys(source)
         THEN LET sv == GetProp(source, key)
                  tv == GetProp(target, key)
              IN IF Truthy(sv) /\ IsObject(sv)
                   THEN deepMerge(IF ~Truthy(tv) \/ ~IsObject(tv)
                                    THEN EmptyObj ELSE tv, sv)
                   ELSE sv
         ELSE target.f[key]])

\* the object deepMerge recurses into for key: target[key], or the fresh {}
\* put in its place
Below(target, key) ==
  IF ~Truthy(GetProp(target, key)) \/ ~IsObject(GetProp(target, key))
  THEN EmptyObj ELSE GetProp(target, key)

RECURSIVE polluted(_, _, _, _)
\* what Object.prototype holds after deepMerge(target, source) has gone
\* through keys, pr being what it held before: an object under __proto__
\* is merged into Object.prototype itself
polluted(pr, target, source, keys) ==
  IF keys = {} THEN pr
  ELSE LET key == CHOOSE k \in keys : TRUE
       IN polluted(
            IF ~(Truthy(GetProp(source, key)) /\ IsObject(GetProp(source, key))) THEN pr
            ELSE IF key = ProtoKey /\ ProtoKey \notin DOMAIN target.f
              THEN Obj(deepMerge(Obj(pr.f), GetProp(source, key)).f)
            ELSE polluted(pr, Below(target, key), GetProp(source, key),
                          ForInKeys(GetProp(source, key))),
            target, source, keys \ {key})

\* str.split(sep)
RECURSIVE split(_, _)
split(str, sep) ==
  IF \E i \in 1..Len(str) : str[i] = sep
  THEN LET i == CHOOSE i \in 1..Len(str) :
                  str[i] = sep /\ \A j \in 1..(i - 1) : str[j] # sep
       IN <<SubSeq(str, 1, i - 1)>> \o split(SubSeq(str, i + 1, Len(str)), sep)
  ELSE <<str>>

\* the loop of the Proxy's get trap, from keys[i] on
RECURSIVE walk(_, _, _)
walk(current, keys, i) ==
  IF i > Len(keys) THEN current
  ELSE LET nxt == GetProp(current, keys[i])
       IN IF nxt.t = "throw" THEN nxt
          ELSE IF nxt.t = "undefined" THEN Null
          ELSE walk(nxt, keys, i + 1)

\* the get trap of the Proxy: this.data[listenerId]
get(target, listenerId) == walk(target, split(listenerId, "."), 1)

\* the store half of the set trap: the new target, or target unchanged with
\* err set when reading the current slice raises
setStore(target, listenerId, value) ==
  LET cur == get(target, listenerId)
  IN IF cur.t = "throw" THEN [target |-> target, err |-> cur.s]
     ELSE LET listener == deepMerge(Spread(cur), value)
          IN [target |-> Obj([k \in DOMAIN target.f \cup {listenerId} |->
                                IF k = listenerId THEN listener ELSE target.f[k]]),
              err |-> <<>>]

---------------------------------------------------------------------------
(* String helpers *)

UpperCase == {"A", "B", "C", "D", "E", "F", "G", "H", "I", "J", "K", "L", "M", "N",
              "O", "P", "Q", "R", "S", "T", "U", "V", "W", "X", "Y", "Z"}

AlphabetUpper == <<"A", "B", "C", "D", "E", "F", "G", "H", "I", "J", "K", "L", "M",
                   "N", "O", "P", "Q", "R", "S", "T", "U", "V", "W", "X", "Y", "Z">>

AlphabetLower == <<"a", "b", "c", "d", "e", "f", "g", "h", "i", "j", "k", "l", "m",
                   "n", "o", "p", "q", "r", "s", "t", "u", "v", "w", "x", "y", "z">>

toLowerCase(c) ==
  IF c \in UpperCase
  THEN AlphabetLower[CHOOSE i \in 1..26 : AlphabetUpper[i] = c]
  ELSE c

Lower(str) == [i \in 1..Len(str) |-> toLowerCase(str[i])]

\* /[A-Z]/.test(str)
hasUpperCase(str) == \E i \in 1..Len(str) : str[i] \in UpperCase

\* str.includes(c)
includes(str, c) == \E i \in 1..Len(str) : str[i] = c

\* str.indexOf(c), 0-based, -1 when absent
indexOf(str, c) ==
  IF includes(str, c)
  THEN (CHOOSE i \in 1..Len(str) : str[i] = c /\ \A j \in 1..(i - 1) : str[j] # c) - 1
  ELSE -1

\* str.slice(from, to) with a non-negative from
slice(str, from, to) ==
  LET e == IF to < 0 THEN (IF Len(str) + to < 0 THEN 0 ELSE Len(str) + to)
           ELSE (IF to > Len(str) THEN Len(str) ELSE to)
  IN IF from >= e THEN <<>> ELSE SubSeq(str, from + 1, e)

WhiteSpace == {" "}

RECURSIVE trimStart(_)
trimStart(str) ==
  IF str # <<>> /\ str[1] \in WhiteSpace THEN trimStart(Tail(str)) ELSE str

RECURSIVE trimEnd(_)
trimEnd(str) ==
  IF str # <<>> /\ str[Len(str)] \in WhiteSpace
  THEN trimEnd(SubSeq(str, 1, Len(str) - 1)) ELSE str

trim(str) == trimEnd(trimStart(str))

RECURSIVE camelToHyphen(_)
camelToHyphen(str) ==
  IF str = <<>> THEN <<>>
  ELSE (IF str[1] \in UpperCase THEN <<"-", toLowerCase(str[1])>> ELSE <<str[1]>>)
         \o camelToHyphen(Tail(str))

RECURSIVE JoinComma(_)

\* String(v)
RECURSIVE ToStr(_)
ToStr(v) ==
  CASE v.t \in {"string", "number", "boolean", "function"} -> v.s
    [] v.t = "null" -> <<"null">>
    [] v.t = "undefined" -> <<"undefined">>
    [] v.t = "array" -> JoinComma([i \in 1..Cardinality(DOMAIN v.f) |-> v.f[IdxKey(i - 1)]])
    [] OTHER -> <<"[object Object]">>

JoinComma(items) ==
  IF items = <<>> THEN <<>>
  ELSE (IF IsNullish(items[1]) THEN <<>> ELSE ToStr(items[1]))
         \o (IF Len(items) > 1 THEN <<",">> \o JoinComma(Tail(items)) ELSE <<>>)

\* the items of an array value, in index order
Items(v) == [i \in 1..Cardinality(DOMAIN v.f) |-> v.f[IdxKey(i - 1)]]

---------------------------------------------------------------------------
(* The reserved descriptor keys *)

kChildren == <<"c","h","i","l","d","r","e","n">>

kPrepend == <<"p","r","e","p","e","n","d">>

kAppend == <<"a","p","p","e","n","d">>

kChild == <<"c","h","i","l","d">>

kTagName == <<"t","a","g","N","a","m","e">>

kTextContent == <<"t","e","x","t","C","o","n","t","e","n","t">>

kInnerHTML == <<"i","n","n","e","r","H","T","M","L">>

kIf == <<"i","f">>

kStyle == <<"s","t","y","l","e">>

nonAttributes ==
  {kChildren, kPrepend, kAppend, kChild, kTagName, kTextContent, kInnerHTML, kIf, kStyle}

---------------------------------------------------------------------------
(* Evaluators: the functions bound in descriptors.  Identifiers are one    *)
(* character long: p and u are hooks, n is the field the evaluators read.  *)

\* (h) => h && h.n
SrcName(h) == <<"(", h, ")", " ", "=", ">", " ", h, " ", "&", "&", " ", h, ".", "n">>

\* (h) => h.n
SrcRaw(h) == <<"(", h, ")", " ", "=", ">", " ", h, ".", "n">>

\* (h) => h && [h.n]
SrcTexts(h) == <<"(", h, ")", " ", "=", ">", " ", h, " ", "&", "&", " ", "[", h, ".", "n", "]">>

\* (h) => h && [new P({ child: new Span({ textContent: (g) => g && g.n }) })]
SrcTree(h, g) ==
  <<"(", h, ")", " ", "=", ">", " ", h, " ", "&", "&", " ", "[", "P", "Span">> \o SrcName(g) \o <<"]">>

\* h => h && h.n
SrcBare(h) == <<h, " ", "=", ">", " ", h, " ", "&", "&", " ", h, ".", "n">>

\* function (h) { return h && h.n }
SrcFunction(h) ==
  <<"f","u","n","c","t","i","o","n", " ", "(", h, ")", " ", "{", " ",
    "r","e","t","u","r","n", " ", h, " ", "&", "&", " ", h, ".", "n", " ", "}">>

\* (h) => h && [new Span({ textContent: (g) => g && g.n })]
SrcSpans(h, g) ==
  <<"(", h, ")", " ", "=", ">", " ", h, " ", "&", "&", " ", "[", "Span">> \o SrcName(g) \o <<"]">>

\* (h) => h && s, s being a name of the enclosing scope
SrcScoped(h) == <<"(", h, ")", " ", "=", ">", " ", h, " ", "&", "&", " ", "s">>

\* the name s of an enclosing scope
ScopeName == <<"s">>

Field == <<"n">>

IdentChars == {"p", "u"}

\* func(arg, e, c): the value the evaluator returns, or a raised TypeError
Call(func, arg) ==
  IF \E h \in IdentChars : func.s \in {SrcName(h), SrcBare(h), SrcFunction(h)}
    THEN (IF Truthy(arg) THEN GetProp(arg, Field) ELSE arg)
  ELSE IF \E h \in IdentChars : func.s = SrcRaw(h)
    THEN GetProp(arg, Field)
  ELSE IF \E h \in IdentChars : func.s = SrcScoped(h)
    THEN (IF ~Truthy(arg) THEN arg
          ELSE IF ScopeName \in DOMAIN func.f THEN func.f[ScopeName]
          ELSE Throw("ReferenceError"))
  ELSE IF \E h \in IdentChars : func.s = SrcTexts(h)
    THEN (IF Truthy(arg)
          THEN (IF GetProp(arg, Field).t = "throw" THEN GetProp(arg, Field)
                ELSE Arr(<<GetProp(arg, Field)>>))
          ELSE arg)
  ELSE IF \E h, g \in IdentChars : func.s = SrcTree(h, g)
    THEN (IF Truthy(arg)
          THEN LET g == CHOOSE g \in IdentChars : \E h \in IdentChars : func.s = SrcTree(h, g)
               IN Arr(<<Desc(<<kTagName, kChild>>,
                         <<Str(<<"p">>),
                           Desc(<<kTagName, kTextContent>>,
                                <<Str(<<"s","p","a","n">>), Fn(SrcName(g))>>)>>)>>)
          ELSE arg)
  ELSE IF \E h, g \in IdentChars : func.s = SrcSpans(h, g)
    THEN (IF Truthy(arg)
          THEN LET g == CHOOSE g \in IdentChars : \E h \in IdentChars : func.s = SrcSpans(h, g)
               IN Arr(<<Desc(<<kTagName, kTextContent>>,
                             <<Str(<<"s","p","a","n">>), Fn(SrcName(g))>>)>>)
          ELSE arg)
  ELSE Throw("TypeError")

\* source texts new Function accepts
ValidSources ==
  UNION {{SrcName(h), SrcRaw(h), SrcTexts(h), SrcBare(h), SrcFunction(h), SrcScoped(h)} :
           h \in IdentChars}
    \cup {SrcTree(h, g) : h \in IdentChars, g \in IdentChars}
    \cup {SrcSpans(h, g) : h \in IdentChars, g \in IdentChars}

---------------------------------------------------------------------------
(* The document: dom[id] is the node with that id; 0 stands for null *)

Node(kind, tagName, text) ==
  [kind |-> kind, tagName |-> tagName, ns |-> <<>>, text |-> text,
   attrs |-> <<>>, kids |-> <<>>, parent |-> 0]

TextNode(text) == Node("text", <<>>, text)

\* a running computation: the store, the document, the registry, the raised error
\* (<<>> when none), the log of emitBinding calls, the log of the binding
\* sites processFunctionValue has visited, the log of the render calls
\* that returned and the log of the attachments to a mount target
State(dat, d, b) ==
  [data |-> dat, dom |-> d, bindings |-> b, err |-> <<>>, emits |-> <<>>, sites |-> <<>>,
   calls |-> <<>>, mounts |-> <<>>]

Raise(st, name) == [st EXCEPT !.err = <<name>>]

Failed(st) == st.err # <<>>

\* document.createTextNode / createElementNS: the new node has id Len(dom) + 1
create(st, node) == [st EXCEPT !.dom = Append(@, node)]

Remove(seq, x) == SelectSeq(seq, LAMBDA y : y # x)

\* parent.removeChild(child)
removeChild(d, parent, child) ==
  [d EXCEPT ![parent].kids = Remove(@, child), ![child].parent = 0]

\* detach a node from the parent it has, if any
Detach(d, child) ==
  IF d[child].parent = 0 THEN d ELSE removeChild(d, d[child].parent, child)

\* parent.appendChild(child)
domAppend(d, parent, child) ==
  [Detach(d, child) EXCEPT ![parent].kids = Append(@, child), ![child].parent = parent]

\* parent.prepend(child)
domPrepend(d, parent, child) ==
  [Detach(d, child) EXCEPT ![parent].kids = <<child>> \o @, ![child].parent = parent]

RECURSIVE DetachAll(_, _, _)
DetachAll(d, parent, kids) ==
  IF kids = <<>> THEN d
  ELSE DetachAll(removeChild(d, parent, kids[1]), parent, Tail(kids))

\* element.children: the child nodes that are elements
ElementChildren(d, element) ==
  SelectSeq(d[element].kids, LAMBDA k : d[k].kind = "element")

\* the nodes of the subtree below n, n excluded
RECURSIVE Descendants(_, _)
Descendants(d, n) ==
  UNION {{d[n].kids[i]} \cup Descendants(d, d[n].kids[i]) : i \in 1..Len(d[n].kids)}

\* the root of the tree n is in
RECURSIVE RootOf(_, _)
RootOf(d, n) == IF d[n].parent = 0 THEN n ELSE RootOf(d, d[n].parent)

---------------------------------------------------------------------------
(* The attribute application routine and the renderer *)

Zero == Num(<<"0">>)

\* a faulty increment: the depth stays 0
PlusNone(depth) == Zero

\* depth + 1, for whatever value arrives in the depth parameter
PlusOne(depth) ==
  CASE depth.t = "number" ->
         Num(<<ToString((CHOOSE n \in 0..9 : ToString(n) = depth.s[1]) + 1)>>)
    [] depth.t = "null" -> Num(<<"1">>)
    [] depth.t = "undefined" -> Num(<<"NaN">>)
    [] OTHER -> Str(ToStr(depth) \o <<"1">>)

XHTML == <<"http://www.w3.org/1999/xhtml">>

\* getNamespace(tagName)
getNamespace(tag) ==
  CASE tag = <<"s","v","g">> -> <<"http://www.w3.org/2000/svg">>
    [] tag = <<"m","a","t","h">> -> <<"http://www.w3.org/1998/Math/MathML">>
    [] tag = <<"x","l","i","n","k">> -> <<"http://www.w3.org/1999/xlink">>
    [] tag = <<"x","m","l">> -> <<"http://www.w3.org/XML/1998/namespace">>
    [] tag = <<"x","m","l","n","s">> -> <<"http://www.w3.org/2000/xmlns/">>
    [] OTHER -> XHTML

\* the name under which an HTML element keeps an attribute set by
\* setAttribute / found by removeAttribute
QualifiedName(node, key) == IF node.ns = XHTML THEN Lower(key) ELSE key

\* element.attributes is the sequence of [name, value] in the order the
\* attributes were added; hasAttribute / getAttribute
hasAttribute(attrs, name) == \E i \in 1..Len(attrs) : attrs[i].name = name

getAttribute(attrs, name) == attrs[CHOOSE i \in 1..Len(attrs) : attrs[i].name = name].value

\* an attribute that exists keeps its place, a new one goes last
AttrSet(attrs, name, val) ==
  IF hasAttribute(attrs, name)
  THEN [i \in 1..Len(attrs) |->
          IF attrs[i].name = name THEN [name |-> name, value |-> val] ELSE attrs[i]]
  ELSE Append(attrs, [name |-> name, value |-> val])

AttrRemove(attrs, name) == SelectSeq(attrs, LAMBDA a : a.name # name)

setAttribute(st, element, key, value) ==
  LET node == st.dom[element]
      cleared == AttrRemove(node.attrs, QualifiedName(node, key))
      name == IF hasUpperCase(key) THEN key ELSE QualifiedName(node, key)
  IN [st EXCEPT !.dom[element].attrs = AttrSet(cleared, name, ToStr(value))]

\* the style text built from the keys of a style object, from keys[i] on
RECURSIVE styleText(_, _, _)
styleText(value, keys, i) ==
  IF i > Len(keys) THEN <<>>
  ELSE LET key == keys[i]
           property == IF includes(key, "-") THEN key ELSE camelToHyphen(key)
       IN property \o <<":">> \o ToStr(GetProp(value, key)) \o <<";">>
            \o styleText(value, keys, i + 1)

\* the keys of v in enumeration order
RECURSIVE SetToSeq(_)
SetToSeq(S) ==
  IF S = {} THEN <<>>
  ELSE LET x == CHOOSE x \in S : TRUE IN <<x>> \o SetToSeq(S \ {x})

ObjectKeys(v) ==
  CASE v.t = "descriptor" -> v.ks
    [] v.t = "array" -> [i \in 1..Cardinality(DOMAIN v.f) |-> IdxKey(i - 1)]
    [] v.t = "object" -> SetToSeq(DOMAIN v.f)
    [] v.t = "string" -> [i \in 1..Len(v.s) |-> IdxKey(i - 1)]
    [] OTHER -> <<>>

setStyle(st, element, value) ==
  LET text == IF value.t = "string" THEN value.s
              ELSE IF IsObject(value) THEN styleText(value, ObjectKeys(value), 1)
              ELSE <<>>
  IN [st EXCEPT !.dom[element].attrs = AttrSet(@, <<"s","t","y","l","e">>, text)]

\* element.innerHTML = "" ; element.innerHTML = value: the children are
\* replaced by what the markup parses to (one opaque node)
setInnerHTML(st, element, value) ==
  LET d0 == DetachAll(st.dom, element, st.dom[element].kids)
      markup == IF value.t = "null" THEN <<>> ELSE ToStr(value)
      d1 == Append(d0, Node("markup", <<>>, markup))
  IN IF markup = <<>> THEN [st EXCEPT !.dom = d0]
     ELSE [st EXCEPT !.dom = domAppend(d1, element, Len(d1))]

\* element.textContent = "" ; element.appendChild(createTextNode(value))
setTextContent(st, element, value) ==
  LET d0 == DetachAll(st.dom, element, st.dom[element].kids)
      d1 == Append(d0, TextNode(ToStr(value)))
  IN [st EXCEPT !.dom = domAppend(d1, element, Len(d1))]

\* clearChildren(element): every child node is removed, and the registry
\* entries whose element is one of these child nodes with it
clearChildren(st, element) ==
  LET gone == {st.dom[element].kids[i] : i \in 1..Len(st.dom[element].kids)}
  IN [st EXCEPT
        !.bindings = [key \in DOMAIN st.bindings |->
                        SelectSeq(st.bindings[key], LAMBDA bind : bind.element \notin gone)],
        !.dom = DetachAll(st.dom, element, st.dom[element].kids)]

\* the listenerId of an evaluator: the text between the first "(" and the
\* first ")" of its source, up to the first comma, trimmed
ListenerIdOf(value) ==
  LET functStr == value.s
      paramsStr == slice(functStr, indexOf(functStr, "(") + 1, indexOf(functStr, ")"))
      paramsArray == split(paramsStr, ",")
  IN trim(paramsArray[1])

\* /[a-z][A-Z]/.test(str)
isCamelCase(str) ==
  \E i \in 1..(Len(str) - 1) :
     /\ str[i] \in {AlphabetLower[j] : j \in 1..26}
     /\ str[i + 1] \in UpperCase

\* skips the white space at the head of str
SkipSpace(str) == trimStart(str)

\* /^\s*(function\s*\(|\(\s*[^\)]*\)\s*=>)/.test(str)
isStringifiedFunction(value) ==
  /\ value.t = "string"
  /\ LET str == SkipSpace(value.s)
     IN \/ /\ Len(str) >= 8
           /\ SubSeq(str, 1, 8) = <<"f","u","n","c","t","i","o","n">>
           /\ LET rest == SkipSpace(SubSeq(str, 9, Len(str)))
              IN rest # <<>> /\ rest[1] = "("
        \/ /\ str # <<>> /\ str[1] = "("
           /\ includes(str, ")")
           /\ LET rest == SkipSpace(SubSeq(str, indexOf(str, ")") + 2, Len(str)))
              IN Len(rest) >= 2 /\ rest[1] = "=" /\ rest[2] = ">"

\* a faulty conversion: a text that is not the source of a function is
\* handed back as it is
parseStringifiedFunctionLax(value) ==
  IF isStringifiedFunction(value) /\ trim(value.s) \in ValidSources
  THEN Fn(trim(value.s))
  ELSE value

\* parseStringifiedFunction(str): new Function(`return (${str})`)()
parseStringifiedFunction(value) ==
  IF isStringifiedFunction(value)
  THEN (IF trim(value.s) \in ValidSources THEN Fn(trim(value.s)) ELSE Throw("SyntaxError"))
  ELSE Throw("Error")

\* a faulty push: the entry goes first
RegisterFirst(bs, listenerId, entry) ==
  [key \in (DOMAIN bs) \cup {listenerId} |->
     IF key = listenerId
     THEN (IF key \in DOMAIN bs THEN <<entry>> \o bs[key] ELSE <<entry>>)
     ELSE bs[key]]

\* this.bindings[listenerId].push(entry), creating the array when missing
Register(bs, listenerId, entry) ==
  [key \in (DOMAIN bs) \cup {listenerId} |->
     IF key = listenerId
     THEN (IF key \in DOMAIN bs THEN Append(bs[key], entry) ELSE <<entry>>)
     ELSE bs[key]]

Ret(st, node, kind) == [st |-> st, node |-> node, kind |-> kind]

RECURSIVE render(_, _, _, _)
RECURSIVE setElementAttribute(_, _, _, _, _, _)
RECURSIVE processFunctionValue(_, _, _, _, _)
RECURSIVE renderKeys(_, _, _, _, _)
RECURSIVE appendRendered(_, _, _, _, _)

\* a faulty attachment: the node rendered always goes first
attachRenderedFirst(r, element, first) ==
  IF Failed(r.st) \/ r.node = 0 THEN r.st
  ELSE [r.st EXCEPT !.dom = domPrepend(@, element, r.node)]

\* if (childElement) element.appendChild(childElement) / element.prepend(childElement),
\* r being what render returned
attachRendered(r, element, first) ==
  IF Failed(r.st) \/ r.node = 0 THEN r.st
  ELSE [r.st EXCEPT !.dom = IF first THEN domPrepend(@, element, r.node)
                                       ELSE domAppend(@, element, r.node)]

\* children.forEach(child => { render(child, null, depth + 1); append }),
\* from items[i] on
appendRendered(st, element, items, depth, i) ==
  IF Failed(st) \/ i > Len(items) THEN st
  ELSE appendRendered(
         attachRendered(render(st, items[i], Null, PlusOne(depth)), element, FALSE),
         element, items, depth, i + 1)

\* setChildren(element, key, value, depth)
setChildren(st, element, key, value, depth) ==
  LET clear == Len(ElementChildren(st.dom, element)) > 0 \/ value.t = "null"
      st1 == IF clear THEN clearChildren(st, element) ELSE st
  IN IF value.t = "null" THEN st1
     ELSE IF key = kChildren /\ value.t # "array" THEN Raise(st1, "TypeError")
     ELSE appendRendered(st1, element,
                         IF key = kChildren THEN Items(value) ELSE <<value>>, depth, 1)

\* element.prepend / element.appendChild of a text node made of value
attachText(st, element, value, first) ==
  LET d1 == Append(st.dom, TextNode(ToStr(value)))
  IN [st EXCEPT !.dom = IF first THEN domPrepend(d1, element, Len(d1))
                                 ELSE domAppend(d1, element, Len(d1))]

\* prependChild(element, value, depth)
prependChild(st, element, value, depth) ==
  IF ~(IsObject(value) \/ value.t = "null")
  THEN attachText(st, element, value, TRUE)
  ELSE attachRendered(render(st, value, Null, PlusOne(depth)), element, TRUE)

\* appendChild(element, value, depth)
appendChild(st, element, value, depth) ==
  IF ~(IsObject(value) \/ value.t = "null")
  THEN attachText(st, element, value, FALSE)
  ELSE attachRendered(render(st, value, Null, PlusOne(depth)), element, FALSE)

\* the switch of setElementAttribute; the helpers declare fewer parameters
\* than they are passed, so setChildren receives listener as its depth,
\* prependChild and appendChild receive listenerId
applyKey(st, element, key, value, listenerId, listener) ==
  IF listener.t = "throw" THEN Raise(st, listener.s[1])
  ELSE IF key \notin nonAttributes THEN setAttribute(st, element, key, value)
  ELSE IF key = kStyle THEN setStyle(st, element, value)
  ELSE IF key = kInnerHTML THEN setInnerHTML(st, element, value)
  ELSE IF key = kPrepend THEN prependChild(st, element, value, listenerId)
  ELSE IF key \in {kChildren, kChild} THEN setChildren(st, element, key, value, listener)
  ELSE IF key = kTextContent THEN setTextContent(st, element, value)
  ELSE IF key = kAppend THEN appendChild(st, element, value, listenerId)
  ELSE st

\* setElementAttribute(element, key, value, listenerId, depth)
setElementAttribute(st, element, key, value, listenerId, depth) ==
  IF Failed(st) THEN st
  ELSE applyKey(st, element, key, value, listenerId, get(st.data, ToStr(listenerId)))

\* the binding of processFunctionValue: the registry entry on the client,
\* the data-listener-id and data-bind-to-* attributes on the server
bind(st, element, key, value, listenerId) ==
  IF ~isServer
  THEN [st EXCEPT !.bindings =
          Register(@, listenerId, [element |-> element, func |-> value, property |-> key])]
  ELSE LET node == st.dom[element]
           a1 == AttrSet(node.attrs, <<"d","a","t","a","-","l","i","s","t","e","n","e","r","-","i","d">>,
                         listenerId)
           name == <<"d","a","t","a","-","b","i","n","d","-","t","o","-">>
                     \o (IF isCamelCase(key) THEN camelToHyphen(key) ELSE key)
       IN [st EXCEPT !.dom[element].attrs =
             AttrSet(a1, QualifiedName(node, name), ToStr(value))]

\* func(this.data[listenerId], e, c), arg being this.data[listenerId]
evaluate(func, arg) == IF arg.t = "throw" THEN arg ELSE Call(func, arg)

\* if (result !== null) setElementAttribute(element, key, result, listenerId, depth)
applyResult(st, element, key, result, listenerId, depth) ==
  IF result.t = "throw" THEN Raise(st, result.s[1])
  ELSE IF result.t # "null"
    THEN setElementAttribute(st, element, key, result, Str(listenerId), depth)
  ELSE st

\* the record of one processFunctionValue call: the site, the key it is
\* bound under and the argument its evaluator is called with
visited(st, element, key, value, listenerId, arg) ==
  [st EXCEPT !.sites = Append(@, [element |-> element, property |-> key, func |-> value,
                                  listenerId |-> listenerId, arg |-> arg])]

\* processFunctionValue(element, key, value, depth)
processFunctionValue(st, element, key, value, depth) ==
  applyResult(bind(visited(st, element, key, value, ListenerIdOf(value),
                           get(st.data, ListenerIdOf(value))),
                   element, key, value, ListenerIdOf(value)),
              element, key,
              evaluate(value, get(st.data, ListenerIdOf(value))),
              ListenerIdOf(value), depth)

\* the value of a template key: a stringified function is parsed first
parsed(raw) == IF isStringifiedFunction(raw) THEN parseStringifiedFunction(raw) ELSE raw

\* the body of Object.keys(template).forEach(...)
renderKey(st, element, key, value, depth) ==
  IF value.t = "throw" THEN Raise(st, value.s[1])
  ELSE IF value.t = "function" THEN processFunctionValue(st, element, key, value, depth)
  ELSE IF value.t # "null" THEN setElementAttribute(st, element, key, value, Null, depth)
  ELSE st

\* Object.keys(template).forEach(...), from keys[i] on
renderKeys(st, template, element, depth, i) ==
  IF Failed(st) \/ i > Len(ObjectKeys(template)) THEN st
  ELSE renderKeys(
         renderKey(st, element, ObjectKeys(template)[i],
                   parsed(GetProp(template, ObjectKeys(template)[i])), depth),
         template, element, depth, i + 1)

\* the nodes of the tree below n in document order, n first
RECURSIVE Preorder(_, _)
RECURSIVE PreorderAll(_, _)
Preorder(d, n) == <<n>> \o PreorderAll(d, d[n].kids)

PreorderAll(d, ns) ==
  IF ns = <<>> THEN <<>> ELSE Preorder(d, ns[1]) \o PreorderAll(d, Tail(ns))

\* scope.querySelectorAll(tag): the descendants of scope with that tag name
querySelectorAll(d, scope, tag) ==
  SelectSeq(Tail(Preorder(d, scope)),
            LAMBDA n : d[n].kind = "element" /\ Lower(d[n].tagName) = tag)

\* the body element of the page's document
DocumentBody == 1

\* document.querySelector(query): 0 when nothing matches
documentQuerySelector(d, query) ==
  LET found == SelectSeq(Preorder(d, DocumentBody),
                         LAMBDA n : d[n].kind = "element" /\ Lower(d[n].tagName) = query)
  IN IF found = <<>> THEN 0 ELSE found[1]

\* a callback given to render: (element) => document.body.appendChild(element)
MountCallback == Fn(<<"(", "e", ")", " ", "=", ">", " ", "m", "o", "u", "n", "t">>)

\* the escapes of a JSON string: the letter after the backslash and the
\* control character it stands for
JsonControls ==
  {<<"b", "BS">>, <<"f", "FF">>, <<"n", "LF">>, <<"r", "CR">>, <<"t", "TAB">>}

ControlChars == {pair[2] : pair \in JsonControls}

ControlOf(letter) == (CHOOSE pair \in JsonControls : pair[1] = letter)[2]

LetterOf(char) == (CHOOSE pair \in JsonControls : pair[2] = char)[1]

\* the characters of a string as JSON.stringify writes them between the
\* double quotes: only the double quote, the backslash and the control
\* characters are escaped
RECURSIVE jsonEscape(_)
jsonEscape(str) ==
  IF str = <<>> THEN <<>>
  ELSE (IF str[1] \in {"\"", "\\"} THEN <<"\\", str[1]>>
        ELSE IF str[1] \in ControlChars THEN <<"\\", LetterOf(str[1])>>
        ELSE <<str[1]>>) \o jsonEscape(Tail(str))

\* JSON.stringify(v), v a value that has a JSON text
RECURSIVE stringify(_)
RECURSIVE stringifyMembers(_, _, _, _)
RECURSIVE stringifyItems(_, _)

\* what JSON.stringify leaves out of an object and turns to null in an array
Unserializable(v) == v.t \in {"undefined", "function"}

stringify(v) ==
  CASE v.t = "string" -> <<"\"">> \o jsonEscape(v.s) \o <<"\"">>
    [] v.t \in {"number", "boolean"} -> v.s
    [] v.t = "array" -> <<"[">> \o stringifyItems(Items(v), 1) \o <<"]">>
    [] v.t \in {"object", "descriptor"} ->
         <<"{">> \o stringifyMembers(v, ObjectKeys(v), 1, TRUE) \o <<"}">>
    [] OTHER -> <<"null">>

\* the members of object v from keys[i] on; first is true until a member
\* has been written
stringifyMembers(v, keys, i, first) ==
  IF i > Len(keys) THEN <<>>
  ELSE IF Unserializable(v.f[keys[i]]) THEN stringifyMembers(v, keys, i + 1, first)
  ELSE (IF first THEN <<>> ELSE <<",">>)
         \o <<"\"">> \o jsonEscape(keys[i]) \o <<"\"", ":">> \o stringify(v.f[keys[i]])
         \o stringifyMembers(v, keys, i + 1, FALSE)

stringifyItems(items, i) ==
  IF i > Len(items) THEN <<>>
  ELSE (IF i = 1 THEN <<>> ELSE <<",">>)
         \o (IF Unserializable(items[i]) THEN <<"null">> ELSE stringify(items[i]))
         \o stringifyItems(items, i + 1)

\* JSON.stringify(this.data): the own keys of the target, each member read
\* through the get trap
storeMembers(dat) ==
  Obj([key \in DOMAIN dat.f |-> get(dat, key)])

\* a step of a parser: it failed, or it read v and goes on at text[i]
Bad == [ok |-> FALSE, v |-> Undefined, i |-> 0]

Good(v, i) == [ok |-> TRUE, v |-> v, i |-> i]

\* object acc with member key set to v
With(acc, key, v) ==
  Obj([k \in (DOMAIN acc.f) \cup {key} |-> IF k = key THEN v ELSE acc.f[k]])

\* the number literals of the texts parsed
NumberTokens == {ToString(n) : n \in 0..99}

\* JSON.parse inside a string, text[i] being the character after the opening
\* quote or after what acc holds
RECURSIVE parseString(_, _, _)
parseString(text, i, acc) ==
  IF i > Len(text) THEN Bad
  ELSE IF text[i] = "\"" THEN Good(Str(acc), i + 1)
  ELSE IF text[i] \in ControlChars THEN Bad
  ELSE IF text[i] # "\\" THEN parseString(text, i + 1, Append(acc, text[i]))
  ELSE IF i + 1 > Len(text) THEN Bad
  ELSE IF text[i + 1] \in {"\"", "\\", "/"}
    THEN parseString(text, i + 2, Append(acc, text[i + 1]))
  ELSE IF \E pair \in JsonControls : pair[1] = text[i + 1]
    THEN parseString(text, i + 2, Append(acc, ControlOf(text[i + 1])))
  ELSE Bad

RECURSIVE parseValue(_, _)
RECURSIVE parseMember(_, _, _)
RECURSIVE parseItem(_, _, _)

\* after the value of a member: the object ends or another member follows
afterValue(text, acc, key, r) ==
  IF ~r.ok \/ r.i > Len(text) THEN Bad
  ELSE IF text[r.i] = "}" THEN Good(With(acc, key, r.v), r.i + 1)
  ELSE IF text[r.i] = "," THEN parseMember(text, r.i + 1, With(acc, key, r.v))
  ELSE Bad

\* after the key of a member: a colon and the value
afterKey(text, acc, k) ==
  IF ~k.ok \/ k.i > Len(text) THEN Bad
  ELSE IF text[k.i] # ":" THEN Bad
  ELSE afterValue(text, acc, k.v.s, parseValue(text, k.i + 1))

\* a member of an object, acc being the members read
parseMember(text, i, acc) ==
  IF i > Len(text) THEN Bad
  ELSE IF text[i] # "\"" THEN Bad
  ELSE afterKey(text, acc, parseString(text, i + 1, <<>>))

\* after an item of an array: the array ends or another item follows
afterItem(text, items, r) ==
  IF ~r.ok \/ r.i > Len(text) THEN Bad
  ELSE IF text[r.i] = "]" THEN Good(Arr(Append(items, r.v)), r.i + 1)
  ELSE IF text[r.i] = "," THEN parseItem(text, r.i + 1, Append(items, r.v))
  ELSE Bad

parseItem(text, i, items) == afterItem(text, items, parseValue(text, i))

parseValue(text, i) ==
  IF i > Len(text) THEN Bad
  ELSE CASE text[i] = "\"" -> parseString(text, i + 1, <<>>)
         [] text[i] = "{" ->
              IF i + 1 <= Len(text) /\ text[i + 1] = "}" THEN Good(EmptyObj, i + 2)
              ELSE parseMember(text, i + 1, EmptyObj)
         [] text[i] = "[" ->
              IF i + 1 <= Len(text) /\ text[i + 1] = "]" THEN Good(Arr(<<>>), i + 2)
              ELSE parseItem(text, i + 1, <<>>)
         [] text[i] = "null" -> Good(Null, i + 1)
         [] text[i] \in {"true", "false"} -> Good(Bool(text[i] = "true"), i + 1)
         [] text[i] \in NumberTokens -> Good(Num(<<text[i]>>), i + 1)
         [] OTHER -> Bad

\* the whole text must be one value
wholeValue(text, r) ==
  IF r.ok /\ r.i = Len(text) + 1 THEN r.v ELSE Throw("SyntaxError")

\* JSON.parse(text)
parse(text) == wholeValue(text, parseValue(text, 1))

\* a faulty bootstrap script: the store is left out
BootstrapBare(dat) == <<"App.init()">>

\* the text of the bootstrap script: the import and App.init(), then, when
\* the store has a hook, JSON.parse('<snapshot>') with its replay, and the
\* binding scan
BootstrapText(dat) ==
  <<"App.init()">>
    \o (IF DOMAIN dat.f # {}
        THEN <<"JSON.parse('">> \o stringify(storeMembers(dat)) \o <<"')", "scan">>
        ELSE <<>>)

\* document.createElement("script") with its text and its two attributes
scriptElement(text) ==
  [Node("element", <<"s","c","r","i","p","t">>, text)
     EXCEPT !.ns = XHTML,
            !.attrs = AttrSet(AttrSet(<<>>, <<"t","y","p","e">>, <<"m","o","d","u","l","e">>),
                              <<"d","e","f","e","r">>, <<"true">>)]

\* parent.insertBefore(node, reference): NotFoundError when reference is not
\* a child of parent
insertBefore(st, d, parent, node, reference) ==
  IF d[reference].parent # parent THEN Raise([st EXCEPT !.dom = d], "NotFoundError")
  ELSE [st EXCEPT !.dom =
          [d EXCEPT ![parent].kids =
                      SubSeq(@, 1, (CHOOSE i \in 1..Len(@) : @[i] = reference) - 1)
                        \o <<node>>
                        \o SubSeq(@, CHOOSE i \in 1..Len(@) : @[i] = reference, Len(@)),
                    ![node].parent = parent]]

\* if (scripts.length > 0) body.insertBefore(script, scripts[0])
\* else body.appendChild(script)
placeScript(st, d, script, body, scripts) ==
  IF scripts = <<>> THEN [st EXCEPT !.dom = domAppend(d, body, script)]
  ELSE insertBefore(st, d, body, script, scripts[1])

\* const body = element.querySelector("body"), bodies being the body
\* elements below element; body.querySelectorAll("script")
intoBody(st, d, script, bodies) ==
  IF bodies = <<>> THEN Raise([st EXCEPT !.dom = d], "TypeError")
  ELSE placeScript(st, d, script, bodies[1],
                   querySelectorAll(d, bodies[1], <<"s","c","r","i","p","t">>))

\* the script, the last node of d, goes into the body below element
withScript(st, element, d) ==
  intoBody(st, d, Len(d), querySelectorAll(d, element, <<"b","o","d","y">>))

\* handleServerSideRendering(element)
handleServerSideRendering(st, element) ==
  IF Lower(st.dom[element].tagName) = <<"h","t","m","l">>
  THEN withScript(st, element, Append(st.dom, scriptElement(BootstrapText(st.data))))
  ELSE st

\* callbackOrQuery(element) / target.appendChild(element): the element goes
\* last under target; the call is recorded with the element as it is then
attached(st, element, depth, by, target) ==
  [st EXCEPT !.dom = domAppend(@, target, element),
             !.mounts = Append(@, [depth |-> depth, element |-> element, by |-> by,
                                   target |-> target,
                                   attrs |-> st.dom[element].attrs,
                                   kids |-> st.dom[element].kids])]

\* a faulty end of render: the mount target is never looked at
mountNever(st, element, callbackOrQuery, depth) ==
  IF Failed(st) THEN Ret(st, 0, "null")
  ELSE IF isServer /\ depth = Zero
    THEN LET st3 == handleServerSideRendering(st, element)
         IN IF Failed(st3) THEN Ret(st3, 0, "null") ELSE Ret(st3, element, "markup")
  ELSE Ret(st, element, "node")

\* the end of render, the element built: the bootstrap script on the server
\* at depth 0, else the callback or the query selector, else the element
mount(st, element, callbackOrQuery, depth) ==
  IF Failed(st) THEN Ret(st, 0, "null")
  ELSE IF isServer /\ depth = Zero
    THEN LET st3 == handleServerSideRendering(st, element)
         IN IF Failed(st3) THEN Ret(st3, 0, "null") ELSE Ret(st3, element, "markup")
  ELSE IF Truthy(callbackOrQuery)
    THEN IF callbackOrQuery.t = "function"
         THEN Ret(attached(st, element, depth, "callback", DocumentBody), 0, "undefined")
         ELSE LET target == documentQuerySelector(st.dom, ToStr(callbackOrQuery))
              IN IF target = 0 THEN Ret(Raise(st, "TypeError"), 0, "null")
                 ELSE Ret(attached(st, element, depth, "selector", target),
                          0, "undefined")
  ELSE Ret(st, element, "node")

\* template.tagName || "div"
tagOf(template) ==
  IF Truthy(GetProp(template, kTagName)) THEN ToStr(GetProp(template, kTagName))
  ELSE <<"d","i","v">>

\* document.createElementNS(getNamespace(tagName), tagName)
createElementNS(st, tag) ==
  create(st, [Node("element", tag, <<>>) EXCEPT !.ns = getNamespace(tag)])

\* a faulty test: if is never looked at
ifNever(template) == FALSE

\* template.if === false
ifFalse(template) ==
  GetProp(template, kIf).t = "boolean" /\ ~Truthy(GetProp(template, kIf))

\* the record of a render call that returned r
returned(r, depth) ==
  IF Failed(r.st) THEN r
  ELSE [r EXCEPT !.st.calls = Append(@, [depth |-> depth, node |-> r.node, kind |-> r.kind])]

\* the body of render
built(st, template, callbackOrQuery, depth) ==
  IF Failed(st) THEN Ret(st, 0, "null")
  ELSE IF ~Truthy(template) THEN Ret(st, 0, "null")
  ELSE IF ifFalse(template) THEN Ret(st, 0, "null")
  ELSE IF template.t = "string"
    THEN Ret(create(st, TextNode(template.s)), Len(st.dom) + 1, "node")
  ELSE mount(renderKeys(createElementNS(st, tagOf(template)), template,
                        Len(st.dom) + 1, depth, 1),
             Len(st.dom) + 1, callbackOrQuery, depth)

\* render(template, callbackOrQuery, depth): the new state, the node
\* returned (0 for null and undefined) and the kind of the result
render(st, template, callbackOrQuery, depth) ==
  returned(built(st, template, callbackOrQuery, depth), depth)

\* the record of one emitBinding call
logged(st, binding, arg, value) ==
  [st EXCEPT !.emits = Append(@, [binding |-> binding, arg |-> arg, value |-> value])]

\* this.setElementAttribute(element, property, value, listenerId, 0), value
\* being what the evaluator returned
emitValue(st, listenerId, binding, value) ==
  IF value.t = "throw" THEN Raise(st, value.s[1])
  ELSE setElementAttribute(st, binding.element, binding.property, value,
                           Str(listenerId), Zero)

\* emitBinding(listenerId, binding)
emitBinding(st, listenerId, binding) ==
  emitValue(logged(st, binding, get(st.data, listenerId),
                   evaluate(binding.func, get(st.data, listenerId))),
            listenerId, binding, evaluate(binding.func, get(st.data, listenerId)))

\* a faulty loop: the registry is read again at every step, so entries
\* registered during the notification are applied too
RECURSIVE emitAllLive(_, _, _, _)
emitAllLive(st, listenerId, entries, i) ==
  IF Failed(st) \/ listenerId \notin DOMAIN st.bindings THEN st
  ELSE IF i > Len(st.bindings[listenerId]) THEN st
  ELSE emitAllLive(emitBinding(st, listenerId, st.bindings[listenerId][i]),
                   listenerId, entries, i + 1)

\* bindings.forEach(binding => emitBinding(listenerId, binding)), from
\* entries[i] on; entries is the array as it was when the loop started
RECURSIVE emitAll(_, _, _, _)
emitAll(st, listenerId, entries, i) ==
  IF Failed(st) \/ i > Len(entries) THEN st
  ELSE emitAll(emitBinding(st, listenerId, entries[i]), listenerId, entries, i + 1)

\* a faulty set trap: the bindings are emitted before the store changes
setEmitFirst(st, listenerId, value) ==
  LET w == setStore(st.data, listenerId, value)
      entries == IF listenerId \in DOMAIN st.bindings THEN st.bindings[listenerId] ELSE <<>>
      st1 == emitAll(st, listenerId, entries, 1)
  IN IF w.err # <<>> THEN Raise(st, w.err[1])
     ELSE [st1 EXCEPT !.data = w.target]

\* a faulty set trap: every registered tether is notified
setNotifyAll(st, listenerId, value) ==
  LET w == setStore(st.data, listenerId, value)
      st1 == [st EXCEPT !.data = w.target]
      RECURSIVE all(_, _)
      all(s0, keys) ==
        IF keys = <<>> THEN s0
        ELSE all(emitAll(s0, keys[1], st.bindings[keys[1]], 1), Tail(keys))
  IN IF w.err # <<>> THEN Raise(st, w.err[1])
     ELSE all(st1, SetToSeq(DOMAIN st.bindings))

\* a faulty set trap: a write that leaves the store as it was notifies nobody
setSkipSame(st, listenerId, value) ==
  LET w == setStore(st.data, listenerId, value)
      st1 == [st EXCEPT !.data = w.target]
      entries == IF listenerId \in DOMAIN st.bindings THEN st.bindings[listenerId] ELSE <<>>
  IN IF w.err # <<>> THEN Raise(st, w.err[1])
     ELSE IF w.target = st.data THEN st1
     ELSE emitAll(st1, listenerId, entries, 1)

\* the set trap of the Proxy: this.data[listenerId] = value
set(st, listenerId, value) ==
  LET w == setStore(st.data, listenerId, value)
      st1 == [st EXCEPT !.data = w.target]
      entries == IF listenerId \in DOMAIN st.bindings THEN st.bindings[listenerId] ELSE <<>>
  IN IF w.err # <<>> THEN Raise(st, w.err[1])
     ELSE emitAll(st1, listenerId, entries, 1)

---------------------------------------------------------------------------
(* The bootstrap script, run by the browser that loads the markup *)

toUpperCase(c) ==
  IF \E i \in 1..26 : AlphabetLower[i] = c
  THEN AlphabetUpper[CHOOSE i \in 1..26 : AlphabetLower[i] = c]
  ELSE c

\* str.replace(/-([a-z])/g, (g) => g[1].toUpperCase())
RECURSIVE hyphenToCamelCase(_)
hyphenToCamelCase(str) ==
  IF str = <<>> THEN <<>>
  ELSE IF str[1] = "-" /\ Len(str) > 1 /\ toUpperCase(str[2]) # str[2]
    THEN <<toUpperCase(str[2])>> \o hyphenToCamelCase(SubSeq(str, 3, Len(str)))
  ELSE <<str[1]>> \o hyphenToCamelCase(Tail(str))

\* str.startsWith(prefix)
startsWith(str, prefix) ==
  Len(str) >= Len(prefix) /\ SubSeq(str, 1, Len(prefix)) = prefix

\* "data-bind-to-"
BindPrefix == <<"d","a","t","a","-","b","i","n","d","-","t","o","-">>

\* "data-listener-id", the attribute behind element.dataset.listenerId
ListenerAttr == <<"d","a","t","a","-","l","i","s","t","e","n","e","r","-","i","d">>

\* the text of a script element as the browser reads it back from the
\* markup: outerHTML writes the text as it is and the element ends at the
\* first "</script>"
scriptSource(text) ==
  IF includes(text, "</script>") THEN SubSeq(text, 1, indexOf(text, "</script>"))
  ELSE text

\* the character an escape of a JavaScript string literal stands for
jsEscape(c) ==
  IF \E pair \in JsonControls : pair[1] = c THEN ControlOf(c) ELSE c

\* the string a single-quoted literal of the script denotes, src[i] being
\* the character after the opening quote or after what acc holds; the
\* literal the script wrote ends at "')": it fails when the source ends
\* before that or a single quote ends the literal earlier
RECURSIVE jsLiteral(_, _, _)
jsLiteral(src, i, acc) ==
  IF i > Len(src) THEN Bad
  ELSE IF src[i] = "')" THEN Good(Str(acc), i + 1)
  ELSE IF src[i] = "'" THEN Bad
  ELSE IF src[i] # "\\" THEN jsLiteral(src, i + 1, Append(acc, src[i]))
  ELSE IF i + 1 > Len(src) \/ src[i + 1] = "')" THEN Bad
  ELSE jsLiteral(src, i + 2, Append(acc, jsEscape(src[i + 1])))

\* Object.keys(parsedData).forEach(key => { App.data[key] = parsedData[key] }),
\* from keys[i] on; every assignment goes through the set trap
RECURSIVE replay(_, _, _, _)
replay(st, parsedData, keys, i) ==
  IF Failed(st) \/ i > Len(keys) THEN st
  ELSE replay(set(st, keys[i], parsedData.f[keys[i]]), parsedData, keys, i + 1)

\* the property named by an attribute of the markup:
\* attr.name.slice("data-bind-to-".length), camel-cased unless it starts
\* with "data-"
boundProperty(name) ==
  IF startsWith(SubSeq(name, Len(BindPrefix) + 1, Len(name)), <<"d","a","t","a","-">>)
  THEN SubSeq(name, Len(BindPrefix) + 1, Len(name))
  ELSE hyphenToCamelCase(SubSeq(name, Len(BindPrefix) + 1, Len(name)))

\* new Function("return " + text)(): the function the text denotes,
\* undefined when the text is not the source of a function
reconstruct(text) == IF text \in ValidSources THEN Fn(text) ELSE Undefined

\* if (!App.bindings[listenerId]) App.bindings[listenerId] = []
ensure(bs, listenerId) ==
  [key \in (DOMAIN bs) \cup {listenerId} |-> IF key \in DOMAIN bs THEN bs[key] ELSE <<>>]

\* a faulty scan: the first attribute that is not the source of a function
\* ends the scan of the element
RECURSIVE scanAttributesAbort(_, _, _, _, _)
scanAttributesAbort(bs, element, attrs, listenerId, i) ==
  IF i > Len(attrs) THEN bs
  ELSE IF ~startsWith(attrs[i].name, BindPrefix)
    THEN scanAttributesAbort(bs, element, attrs, listenerId, i + 1)
  ELSE IF reconstruct(attrs[i].value).t # "function" THEN bs
  ELSE scanAttributesAbort(
         Register(bs, listenerId,
                  [element |-> element, func |-> reconstruct(attrs[i].value),
                   property |-> boundProperty(attrs[i].name)]),
         element, attrs, listenerId, i + 1)

\* Array.from(element.attributes).forEach(...), from attrs[i] on
RECURSIVE scanAttributes(_, _, _, _, _)
scanAttributes(bs, element, attrs, listenerId, i) ==
  IF i > Len(attrs) THEN bs
  ELSE scanAttributes(
         IF /\ startsWith(attrs[i].name, BindPrefix)
            /\ reconstruct(attrs[i].value).t = "function"
         THEN Register(bs, listenerId,
                       [element |-> element, func |-> reconstruct(attrs[i].value),
                        property |-> boundProperty(attrs[i].name)])
         ELSE bs,
         element, attrs, listenerId, i + 1)

\* document.querySelectorAll("[data-listener-id]").forEach(...), from
\* elements[i] on
RECURSIVE scanElements(_, _, _, _)
scanElements(bs, d, elements, i) ==
  IF i > Len(elements) THEN bs
  ELSE scanElements(
         scanAttributes(ensure(bs, getAttribute(d[elements[i]].attrs, ListenerAttr)),
                        elements[i], d[elements[i]].attrs,
                        getAttribute(d[elements[i]].attrs, ListenerAttr), 1),
         d, elements, i + 1)

\* document.querySelectorAll("[data-listener-id]") in the document whose
\* root element is root
listenerElements(d, root) ==
  SelectSeq(Preorder(d, root),
            LAMBDA n : d[n].kind = "element" /\ hasAttribute(d[n].attrs, ListenerAttr))

\* the bootstrap script of the document, 0 when there is none
bootstrapOf(d, root) ==
  LET found == SelectSeq(Preorder(d, root),
                         LAMBDA n : /\ d[n].kind = "element"
                                    /\ Lower(d[n].tagName) = <<"s","c","r","i","p","t">>
                                    /\ d[n].text # <<>>
                                    /\ d[n].text[1] = "App.init()")
  IN IF found = <<>> THEN 0 ELSE found[1]

\* the page after the script: its store, its registry, the error that
\* ended the script, and how far the script got
Loaded(st, bs, err, kind) ==
  [data |-> st.data, bindings |-> bs, err |-> err, kind |-> kind, dom |-> st.dom,
   emits |-> st.emits]

\* the module as the browser has imported it, d being the document: init()
\* has made the store, the registry is empty
Fresh(d) == State(EmptyObj, d, <<>>)

\* the binding scan, st being the outcome of the replay
scanned(root, st) ==
  IF Failed(st) THEN Loaded(st, st.bindings, st.err, "thrown")
  ELSE Loaded(st, scanElements(st.bindings, st.dom, listenerElements(st.dom, root), 1),
              <<>>, "loaded")

\* a faulty script: the binding scan runs before the replay
seededLate(d, root, parsedData) ==
  IF parsedData.t = "throw" THEN Loaded(Fresh(d), <<>>, parsedData.s, "thrown")
  ELSE scanned(root,
               replay([Fresh(d) EXCEPT !.bindings =
                         scanElements(<<>>, d, listenerElements(d, root), 1)],
                      parsedData, ObjectKeys(parsedData), 1))

\* the replay, parsedData being what JSON.parse returned
seeded(d, root, parsedData) ==
  IF parsedData.t = "throw" THEN Loaded(Fresh(d), <<>>, parsedData.s, "thrown")
  ELSE scanned(root, replay(Fresh(d), parsedData, ObjectKeys(parsedData), 1))

\* the script from JSON.parse on, lit being its string literal: a script
\* that does not parse runs no statement
parsedScript(d, root, lit) ==
  IF ~lit.ok THEN Loaded(Fresh(d), <<>>, <<"SyntaxError">>, "unparsed")
  ELSE seeded(d, root, parse(lit.v.s))

\* the run of the bootstrap script whose text is text
bootstrap(d, root, text) ==
  IF ~includes(text, "JSON.parse('") THEN Loaded(Fresh(d), <<>>, <<>>, "loaded")
  ELSE parsedScript(d, root,
                    jsLiteral(scriptSource(text), indexOf(text, "JSON.parse('") + 2, <<>>))

---------------------------------------------------------------------------
(* Bounds and inputs *)

MaxWrites == 2

MaxRenders == 1

MaxNodes == 14

Hooks == {<<"p">>, <<"u">>}

Jo == Str(<<"J", "o">>)

Ann == Str(<<"A", "n", "n">>)

\* { n: "Jo" }, { n: "Ann" }
NameOf(x) == Obj(Field :> x)

\* { g: 30 }
Age == Obj(<<"g">> :> Num(<<"30">>))

\* { i: { f: "Jo" } } and { i: { l: "Do" } }
First == Obj(<<"i">> :> Obj(<<"f">> :> Jo))

Second == Obj(<<"i">> :> Obj(<<"l">> :> Str(<<"D", "o">>)))

\* { a: null }
Nulled == Obj(<<"a">> :> Null)

\* { c: ["x", "y"] }
Listed == Obj(<<"c">> :> Arr(<<Str(<<"x">>), Str(<<"y">>)>>))

\* the values written to a hook
Partials(h) ==
  IF h = <<"p">>
  THEN {NameOf(Jo), NameOf(Ann), Age, First, Second, Nulled, Listed,
        Str(<<"x", "y">>), Num(<<"5">>), Arr(<<Jo>>)}
  ELSE {NameOf(Ann)}

\* the tethers read
Tethers ==
  {<<"p">>, <<"u", ".", "n">>, <<"p", ".", "n">>, <<"p", ".", "i", ".", "f">>,
   <<"p", ".", "c">>, <<"p", ".", "a", ".", "b">>, <<"p", ".", "n", ".", "b">>,
   <<"p", ".", "x", ".", "y">>,
   <<"c","o","n","s","t","r","u","c","t","o","r">>, <<"t","o","S","t","r","i","n","g">>,
   ProtoKey}

Tag(name) == Str(name)

\* { tagName: "span", textContent: <evaluator> }
BoundSpan(src) == Desc(<<kTagName, kTextContent>>, <<Tag(<<"s","p","a","n">>), Fn(src)>>)

\* { tagName: "div", class: (u) => u && u.n, title: p => p && p.n,
\*   children: <evaluator> }
BoundList(src) ==
  Desc(<<kTagName, <<"c","l","a","s","s">>, <<"t","i","t","l","e">>, kChildren>>,
       <<Tag(<<"d","i","v">>), Fn(SrcName("u")), Fn(SrcBare("p")), Fn(src)>>)

\* { tagName: "div", children: [{ tagName: "p", textContent: "Hi" }] }
Static ==
  Desc(<<kTagName, kChildren>>,
       <<Tag(<<"d","i","v">>),
         Arr(<<Desc(<<kTagName, kTextContent>>, <<Tag(<<"p">>), Str(<<"H", "i">>)>>)>>)>>)

\* { tagName: "p", if: false, textContent: "never" }
Pruned ==
  Desc(<<kTagName, kIf, kTextContent>>, <<Tag(<<"p">>), Bool(FALSE), Str(<<"never">>)>>)

\* { tagName: "html", children: [{ tagName: "body", children: [<span>, { tagName: "script" }] }] }
Page ==
  Desc(<<kTagName, kChildren>>,
       <<Tag(<<"h","t","m","l">>),
         Arr(<<Desc(<<kTagName, kChildren>>,
                    <<Tag(<<"b","o","d","y">>),
                      Arr(<<BoundSpan(SrcName("p")),
                            Desc(<<kTagName>>, <<Tag(<<"s","c","r","i","p","t">>)>>)>>)>>)>>)>>)

\* the descriptors rendered
Templates ==
  {BoundSpan(SrcName("p")), BoundSpan(SrcRaw("p")), BoundSpan(SrcBare("p")),
   BoundList(SrcTree("p", "u")), BoundList(SrcTree("p", "p")), BoundList(SrcTexts("p")),
   Static, Pruned, Page}

\* the second argument of render: none, or a query
Mounts == {Undefined, Str(<<"b","o","d","y">>)}

---------------------------------------------------------------------------
(* The state machine *)

NoOp ==
  [op |-> "init", hook |-> <<>>, arg |-> Undefined, tether |-> <<>>,
   result |-> Undefined, err |-> <<>>, emits |-> <<>>, sites |-> <<>>, calls |-> <<>>, mounts |-> <<>>,
   node |-> 0,
   kind |-> "none",
   target |-> Undefined,
   pre |-> [data |-> EmptyObj, bindings |-> <<>>, dom |-> <<>>],
   prev |-> [op |-> "init", hook |-> <<>>, arg |-> Undefined, absent |-> TRUE]]

\* what the next operation remembers of this one
Prev == [op |-> last.op, hook |-> last.hook,
         arg |-> IF last.op = "write" THEN last.arg ELSE Undefined,
         absent |-> last.op = "write" /\ get(last.pre.data, last.hook).t = "null"]

Pre == [data |-> data, bindings |-> bindings, dom |-> dom]

\* after import: init() has created the store, the registry is empty, the
\* document holds its body and Object.prototype is as the language made it
Init ==
  /\ isServer \in BOOLEAN
  /\ data = EmptyObj
  /\ bindings = <<>>
  /\ dom = <<[Node("element", <<"b","o","d","y">>, <<>>) EXCEPT !.ns = XHTML]>>
  /\ roots = {}
  /\ count = [writes |-> 0, renders |-> 0]
  /\ last = NoOp
  /\ proto = EmptyObj

\* App.data[h] = value
Write(h, value) ==
  LET st == set(State(data, dom, bindings), h, value)
  IN /\ count.writes < MaxWrites
     /\ Len(st.dom) <= MaxNodes
     /\ data' = st.data
     /\ bindings' = st.bindings
     /\ dom' = st.dom
     /\ count' = [count EXCEPT !.writes = @ + 1]
     /\ last' = [NoOp EXCEPT !.op = "write", !.hook = h, !.arg = value, !.err = st.err,
                             !.emits = st.emits, !.sites = st.sites,
                             !.calls = st.calls, !.mounts = st.mounts, !.pre = Pre,
                             !.prev = Prev]
     /\ proto' = IF Failed(st) THEN proto
                 ELSE polluted(proto, Spread(get(data, h)), value, ForInKeys(value))
     /\ UNCHANGED <<isServer, roots>>

\* App.data[tether]
Read(tether) ==
  /\ last' = [NoOp EXCEPT !.op = "read", !.tether = tether, !.result = get(data, tether)]
  /\ UNCHANGED <<isServer, data, bindings, dom, roots, count, proto>>

\* App.render(template, callbackOrQuery), of which a behaviour holds at most
\* limit
Rendering(template, callbackOrQuery, limit) ==
  LET r == render(State(data, dom, bindings), template, callbackOrQuery, Zero)
  IN /\ count.renders < limit
     /\ Len(r.st.dom) <= MaxNodes
     /\ bindings' = r.st.bindings
     /\ dom' = r.st.dom
     /\ roots' = IF r.kind \in {"node", "undefined"} /\ ~Failed(r.st)
                 THEN roots \cup {Len(dom) + 1} ELSE roots
     /\ count' = [count EXCEPT !.renders = @ + 1]
     /\ last' = [NoOp EXCEPT !.op = "render", !.arg = template,
                             !.target = IF isServer THEN Undefined ELSE callbackOrQuery,
                             !.err = r.st.err,
                             !.sites = r.st.sites, !.calls = r.st.calls, !.mounts = r.st.mounts,
                             !.node = r.node, !.kind = r.kind,
                             !.pre = Pre, !.prev = Prev]
     /\ UNCHANGED <<isServer, data, proto>>

Render(template, callbackOrQuery) == Rendering(template, callbackOrQuery, MaxRenders)

\* the browser loads the markup the last server render returned: the module
\* is imported afresh there and the bootstrap script of the markup runs
Hydrate ==
  /\ isServer
  /\ last.op = "render" /\ last.kind = "markup" /\ last.err = <<>>
  /\ Lower(dom[last.node].tagName) = <<"h","t","m","l">>
  /\ bootstrapOf(dom, last.node) # 0
  /\ isServer' = FALSE
  /\ \E page \in {bootstrap(dom, last.node, dom[bootstrapOf(dom, last.node)].text)} :
        /\ data' = page.data
        /\ bindings' = page.bindings
        /\ dom' = page.dom
        /\ last' = [NoOp EXCEPT !.op = "hydrate", !.arg = last.arg, !.err = page.err,
                                !.emits = page.emits,
                                !.sites = last.sites, !.node = last.node,
                                !.kind = page.kind,
                                !.pre = Pre, !.prev = Prev]
  /\ roots' = {last.node}
  /\ proto' = EmptyObj   \* the browser's Object.prototype, not the server's
  /\ UNCHANGED count

\* the renderer and the store: writes and renders in any order, and the
\* load of a rendered page
Next ==
  \/ \E h \in Hooks : \E value \in Partials(h) : Write(h, value)
  \/ \E template \in Templates : \E callbackOrQuery \in Mounts :
        Render(template, callbackOrQuery)
  \/ Hydrate

Spec == Init /\ [][Next]_vars

\* the store alone: writes and reads in any order
NextStore ==
  \/ \E h \in Hooks : \E value \in Partials(h) : Write(h, value)
  \/ \E tether \in Tethers : Read(tether)

SpecStore == Init /\ [][NextStore]_vars

\* the slices written while elements are bound: a name, another name, a
\* slice without the field the evaluators read
Slices(h) == IF h = <<"p">> THEN {NameOf(Jo), NameOf(Ann), Age} ELSE {NameOf(Ann)}

\* { tagName: "div", children: (p) => p && [<span bound to p>], class: (p) => p && p.n }
Roster ==
  Desc(<<kTagName, kChildren, <<"c","l","a","s","s">>>>,
       <<Tag(<<"d","i","v">>), Fn(SrcSpans("p", "p")), Fn(SrcName("p"))>>)

\* the descriptors that bind a property to a hook
Bound ==
  {BoundSpan(SrcName("p")), BoundList(SrcTree("p", "u")), BoundList(SrcTree("p", "p")),
   BoundList(SrcTexts("p")), Roster}

\* bound elements: renders of binding descriptors and writes to their hooks
NextBind ==
  \/ \E h \in Hooks : \E value \in Slices(h) : Write(h, value)
  \/ \E template \in Bound : \E callbackOrQuery \in Mounts :
        Render(template, callbackOrQuery)

SpecBind == Init /\ [][NextBind]_vars

\* { tagName: "div", if: false, class: (u) => u && u.n,
\*   children: [{ tagName: "span", textContent: (p) => p && p.n }] }
PrunedBound ==
  Desc(<<kTagName, kIf, <<"c","l","a","s","s">>, kChildren>>,
       <<Tag(<<"d","i","v">>), Bool(FALSE), Fn(SrcName("u")),
         Arr(<<BoundSpan(SrcName("p"))>>)>>)

\* { tagName: "div", children: [<PrunedBound>, { tagName: "span", textContent: (u) => u && u.n }] }
Holder ==
  Desc(<<kTagName, kChildren>>,
       <<Tag(<<"d","i","v">>), Arr(<<PrunedBound, BoundSpan(SrcName("u"))>>)>>)

\* the descriptors of the render passes: pruned ones, and a span bound by
\* each form of evaluator
Passes ==
  {Pruned, PrunedBound, Holder, BoundSpan(SrcName("p")), BoundSpan(SrcRaw("p")),
   BoundSpan(SrcBare("p")), BoundSpan(SrcFunction("p"))}

\* { n: null }: a slice for which the evaluators return null
Blank == NameOf(Null)

Values(h) == IF h = <<"p">> THEN {NameOf(Jo), Blank} ELSE {NameOf(Ann)}

\* render passes that return the element, and writes
NextRender ==
  \/ \E h \in Hooks : \E value \in Values(h) : Write(h, value)
  \/ \E template \in Passes : Render(template, Undefined)

SpecRender == Init /\ [][NextRender]_vars

\* { tagName: "html", children: [{ tagName: "body", children: [content] }] }
PageOf(content) ==
  Desc(<<kTagName, kChildren>>,
       <<Tag(<<"h","t","m","l">>),
         Arr(<<Desc(<<kTagName, kChildren>>,
                    <<Tag(<<"b","o","d","y">>), Arr(<<content>>)>>)>>)>>)

\* { tagName: "div", class: (p) => p && p.n, "aria-label": (p) => p && p.n,
\*   "data-x": (p) => p && p.n, textContent: (p) => p && p.n }
Labelled ==
  Desc(<<kTagName, <<"c","l","a","s","s">>, <<"a","r","i","a","-","l","a","b","e","l">>,
         <<"d","a","t","a","-","x">>, kTextContent>>,
       <<Tag(<<"d","i","v">>), Fn(SrcName("p")), Fn(SrcName("p")), Fn(SrcName("p")),
         Fn(SrcName("p"))>>)

\* { tagName: "div", class: (u) => u && u.n, title: (p) => p && p.n }
Shared ==
  Desc(<<kTagName, <<"c","l","a","s","s">>, <<"t","i","t","l","e">>>>,
       <<Tag(<<"d","i","v">>), Fn(SrcName("u")), Fn(SrcName("p"))>>)

\* const s = "!"; { tagName: "span", textContent: (p) => p && s }
Scoped ==
  Desc(<<kTagName, kTextContent>>,
       <<Tag(<<"s","p","a","n">>), Closure(SrcScoped("p"), ScopeName :> Str(<<"!">>))>>)

\* "data-bind-to-junk"
JunkKey == BindPrefix \o <<"j","u","n","k">>

\* { tagName: "div", class: (p) => p && p.n, "data-bind-to-junk": "junk",
\*   title: function (p) { return p && p.n } }
Marred ==
  Desc(<<kTagName, <<"c","l","a","s","s">>, JunkKey, <<"t","i","t","l","e">>>>,
       <<Tag(<<"d","i","v">>), Fn(SrcName("p")), Str(<<"j","u","n","k">>),
         Fn(SrcFunction("p"))>>)

\* the pages a server renders
Pages ==
  {PageOf(BoundSpan(SrcName("p"))), PageOf(Labelled), PageOf(Shared), PageOf(Scoped),
   PageOf(Marred)}

\* "it's", "a\d" and "x</script>"
Quoted == Str(<<"i", "t", "'", "s">>)

Slashed == Str(<<"a", "\\", "d">>)

Closing == Str(<<"x", "</script>">>)

\* the values a server writes
Served(h) ==
  IF h = <<"p">> THEN {NameOf(Jo), Blank, NameOf(Quoted), NameOf(Slashed), NameOf(Closing)}
  ELSE {NameOf(Ann)}

\* pages rendered, loaded and written to
NextHydrate ==
  \/ \E h \in Hooks : \E value \in Served(h) : Write(h, value)
  \/ \E template \in Pages : Render(template, Undefined)
  \/ Hydrate

SpecHydrate == Init /\ [][NextHydrate]_vars

\* App.parseStringifiedFunction(text)
Convert(text) ==
  /\ last' = [NoOp EXCEPT !.op = "convert", !.arg = text,
                          !.result = parseStringifiedFunction(text),
                          !.pre = Pre, !.prev = Prev]
  /\ UNCHANGED <<isServer, data, bindings, dom, roots, count, proto>>

\* "(p) => p &&": it has the shape of an arrow function and does not parse
BrokenSrc == <<"(", "p", ")", " ", "=", ">", " ", "p", " ", "&", "&">>

\* "hello"
PlainText == <<"h","e","l","l","o">>

\* the texts that are the source of a function and have the shape
\* parseStringifiedFunction asks for
Wellformed == {SrcName("p"), SrcFunction("p"), <<" ">> \o SrcName("u")}

\* the texts converted
Texts == Wellformed \cup {BrokenSrc, SrcBare("p"), PlainText}

\* { tagName: "span", title: <text> }: a descriptor that arrives serialized
Titled(text) ==
  Desc(<<kTagName, <<"t","i","t","l","e">>>>, <<Tag(<<"s","p","a","n">>), Str(text)>>)

\* conversions, renders of serialized descriptors, and writes
NextConvert ==
  \/ \E value \in Values(<<"p">>) : Write(<<"p">>, value)
  \/ \E text \in Texts : Render(Titled(text), Undefined)
  \/ \E text \in Texts : Convert(Str(text))

SpecConvert == Init /\ [][NextConvert]_vars

\* { tagName: "div", children: [{ tagName: "script" }] }
Widget ==
  Desc(<<kTagName, kChildren>>,
       <<Tag(<<"d","i","v">>),
         Arr(<<Desc(<<kTagName>>, <<Tag(<<"s","c","r","i","p","t">>)>>)>>)>>)

\* { tagName: "div", child: { tagName: "html", children: [{ tagName: "body" }] },
\*   prepend: { tagName: "p" },
\*   append: { tagName: "i", children: [{ tagName: "b" }] } }
Framed ==
  Desc(<<kTagName, kChild, kPrepend, kAppend>>,
       <<Tag(<<"d","i","v">>),
         Desc(<<kTagName, kChildren>>,
              <<Tag(<<"h","t","m","l">>),
                Arr(<<Desc(<<kTagName>>, <<Tag(<<"b","o","d","y">>)>>)>>)>>),
         Desc(<<kTagName>>, <<Tag(<<"p">>)>>),
         Desc(<<kTagName, kChildren>>,
              <<Tag(<<"i">>), Arr(<<Desc(<<kTagName>>, <<Tag(<<"b">>)>>)>>)>>)>>)

\* the pages and fragments a server sends: a page with a script in body, a
\* page with a script below a child of body, pages without scripts, and
\* fragments whose root is not html
Sent ==
  {Page, PageOf(Widget), PageOf(BoundSpan(SrcName("p"))), PageOf(Roster), Static, Widget,
   Framed}

\* renders of pages and fragments, loads and writes
NextServe ==
  \/ \E h \in Hooks : \E value \in Values(h) : Write(h, value)
  \/ \E template \in Sent : Render(template, Undefined)
  \/ Hydrate

SpecServe == Init /\ [][NextServe]_vars

\* the pages whose scan is followed
Scanned == {PageOf(Marred), PageOf(Shared)}

\* pages rendered from plain values, loaded and written to
NextScan ==
  \/ \E h \in Hooks : \E value \in Values(h) : Write(h, value)
  \/ \E template \in Scanned : Render(template, Undefined)
  \/ Hydrate

SpecScan == Init /\ [][NextScan]_vars

---------------------------------------------------------------------------
(* Claims about the store (SpecStore) *)

\* the recursive merge of two objects: a key of B wins, two objects under
\* one key merge, every other key of A stays as it is
RECURSIVE merge(_, _)
merge(A, B) ==
  Obj([k \in (DOMAIN A.f) \cup (DOMAIN B.f) |->
         IF k \notin DOMAIN B.f THEN A.f[k]
         ELSE IF k \in DOMAIN A.f /\ A.f[k].t = "object" /\ B.f[k].t = "object"
           THEN merge(A.f[k], B.f[k])
         ELSE B.f[k]])

\* the value stored at a path of own properties, Null when a segment is missing
RECURSIVE Stored(_, _, _)
Stored(v, keys, i) ==
  IF i > Len(keys) THEN v
  ELSE IF IsObject(v) /\ keys[i] \in DOMAIN v.f THEN Stored(v.f[keys[i]], keys, i + 1)
  ELSE Null

\* C1: write(h, A) then write(h, B) on a fresh hook leaves the slice of h
\* equal to the recursive merge of A and B; a key of A that B does not
\* have keeps its value from A.
C1_TwoWritesMerge ==
  (/\ last.op = "write" /\ last.prev.op = "write"
   /\ last.prev.hook = last.hook /\ last.prev.absent
   /\ last.prev.arg.t = "object" /\ last.arg.t = "object")
  => /\ get(data, last.hook) = merge(last.prev.arg, last.arg)
     /\ \A k \in (DOMAIN last.prev.arg.f) \ (DOMAIN last.arg.f) :
          GetProp(get(data, last.hook), k) = last.prev.arg.f[k]

\* C6: read(tether) returns the value stored at the full dotted path and
\* absent as soon as one segment is missing.
C6_ReadWalksFullPath ==
  last.op = "read" => last.result = Stored(data, split(last.tether, "."), 1)

\* C7: on an empty store every read returns absent, also for the names
\* every plain object has.
C7_EmptyStoreReadsAbsent ==
  (last.op = "read" /\ data = EmptyObj) => last.result.t = "null"

\* the path stops at a stored null or scalar before its last segment
RECURSIVE BelowLeaf(_, _, _)
BelowLeaf(v, keys, i) ==
  /\ i <= Len(keys)
  /\ IF IsObject(v)
     THEN keys[i] \in DOMAIN v.f /\ BelowLeaf(v.f[keys[i]], keys, i + 1)
     ELSE TRUE

\* C8: a read never raises, and a tether that continues below a stored
\* null or scalar reads as absent.
C8_ReadNeverRaises ==
  last.op = "read" =>
    /\ last.result.t # "throw"
    /\ BelowLeaf(data, split(last.tether, "."), 1) => last.result.t = "null"

\* C9: a write of a scalar or an array replaces the slice: read(hook) is
\* that scalar or array afterwards.
C9_ScalarWriteReplaces ==
  (last.op = "write" /\ last.arg.t \in {"string", "number", "array"})
  => get(data, last.hook) = last.arg

\* C10: on a fresh hook, write(h, A) then read(h) gives A back, arrays in
\* the fields of A included.
C10_WriteReadRoundTrip ==
  (/\ last.op = "write" /\ last.arg.t = "object"
   /\ get(last.pre.data, last.hook).t = "null")
  => get(data, last.hook) = last.arg

---------------------------------------------------------------------------
(* Claims about bindings and rendering (SpecBind) *)

EntriesOf(bs, key) == IF key \in DOMAIN bs THEN bs[key] ELSE <<>>

\* an item render() turns into no node
IsPruned(item) ==
  \/ ~Truthy(item)
  \/ GetProp(item, kIf).t = "boolean" /\ ~Truthy(GetProp(item, kIf))

\* the node is what render() makes of the item at its top
Mirrors(node, item) ==
  IF item.t = "string" THEN node.kind = "text" /\ node.text = item.s
  ELSE /\ node.kind = "element"
       /\ node.tagName = (IF Truthy(GetProp(item, kTagName))
                          THEN ToStr(GetProp(item, kTagName)) ELSE <<"d","i","v">>)

\* what an element shows of a bound property after value was applied to it:
\* its text, its attribute, or the rendered items as its last children
Shows(d, element, property, value) ==
  IF property = kTextContent
  THEN /\ Len(d[element].kids) = 1
       /\ d[d[element].kids[1]].kind = "text"
       /\ d[d[element].kids[1]].text = ToStr(value)
  ELSE IF property = kChildren
  THEN value.t = "array" =>
         LET items == SelectSeq(Items(value), LAMBDA item : ~IsPruned(item))
             kids == d[element].kids
         IN /\ Len(kids) >= Len(items)
            /\ \A i \in 1..Len(items) :
                 Mirrors(d[kids[Len(kids) - Len(items) + i]], items[i])
  ELSE /\ hasAttribute(d[element].attrs, property)
       /\ getAttribute(d[element].attrs, property) = ToStr(value)

\* C2: when a write to hook h returns, every element with a property bound
\* to h shows the evaluator's result for the slice as it is after the
\* write; no render was called.
C2_WriteReappliesBindings ==
  (last.op = "write" /\ last.err = <<>>) =>
    \A i \in 1..Len(EntriesOf(last.pre.bindings, last.hook)) :
      LET b == EntriesOf(last.pre.bindings, last.hook)[i]
      IN Shows(dom, b.element, b.property, Call(b.func, get(data, last.hook)))

\* scenario E: a span bound to p shows "Jo" after write("p", {n: "Jo"}),
\* having shown something else before
C2_Witness ==
  /\ last.op = "write" /\ last.err = <<>> /\ last.arg = NameOf(Jo)
  /\ \E i \in 1..Len(EntriesOf(last.pre.bindings, last.hook)) :
       LET b == EntriesOf(last.pre.bindings, last.hook)[i]
       IN /\ b.property = kTextContent
          /\ dom[dom[b.element].kids[1]].text = <<"J", "o">>
          /\ \/ last.pre.dom[b.element].kids = <<>>
             \/ last.pre.dom[last.pre.dom[b.element].kids[1]].text # <<"J", "o">>

Attached(d, n) == RootOf(d, n) \in roots \cup {DocumentBody}

\* C4: whatever an operation discards from a rendered tree, at any depth,
\* has no entry left in the registry.
C4_DiscardedTargetsArePurged ==
  last.op = "write" =>
    \A key \in DOMAIN bindings : \A i \in 1..Len(bindings[key]) :
      LET n == bindings[key][i].element
      IN (n <= Len(last.pre.dom) /\ RootOf(last.pre.dom, n) \in roots \cup {DocumentBody})
           => Attached(dom, n)

\* C5: applying children or child leaves the target with exactly the
\* rendered non-pruned items of the new value, whatever it held before,
\* and with no child when the value is null.
C5_ChildrenReplaceAll ==
  (last.op = "write" /\ last.err = <<>>) =>
    \A i \in 1..Len(last.emits) :
      LET e == last.emits[i]
          kids == dom[e.binding.element].kids
          items == IF e.binding.property = kChild THEN <<e.value>> ELSE Items(e.value)
      IN e.binding.property \in {kChildren, kChild} =>
           IF e.value.t = "null" THEN kids = <<>>
           ELSE e.value.t = "array" =>
                  /\ Len(kids) = Len(SelectSeq(items, LAMBDA item : ~IsPruned(item)))
                  /\ \A j \in 1..Len(kids) : kids[j] > Len(last.pre.dom)

---------------------------------------------------------------------------
(* Claims about render passes (SpecRender) *)

\* the evaluators of a descriptor and of its static descendants, those of
\* descriptors with if = false left out
RECURSIVE LiveEvaluators(_)
LiveEvaluators(template) ==
  IF template.t # "descriptor" \/ GetProp(template, kIf) = Bool(FALSE) THEN {}
  ELSE {template.f[k] : k \in {k \in DOMAIN template.f : template.f[k].t = "function"}}
       \cup UNION {UNION {LiveEvaluators(template.f[k].f[i]) : i \in DOMAIN template.f[k].f} :
                     k \in {k \in DOMAIN template.f : template.f[k].t = "array"}}

\* C11: a render of a descriptor with if = false returns nothing and leaves
\* the document and the registry as they were, with no evaluator called; in
\* any render, no evaluator below a descriptor with if = false is called.
C11_IfFalseRendersNothing ==
  last.op = "render" =>
    /\ GetProp(last.arg, kIf) = Bool(FALSE) =>
          /\ last.node = 0 /\ last.kind = "null" /\ last.err = <<>>
          /\ dom = last.pre.dom /\ bindings = last.pre.bindings
          /\ last.sites = <<>>
    /\ \A i \in 1..Len(last.sites) : last.sites[i].func \in LiveEvaluators(last.arg)
    /\ \A key \in DOMAIN bindings : \A i \in 1..Len(bindings[key]) :
          (\A j \in 1..Len(EntriesOf(last.pre.bindings, key)) :
              last.pre.bindings[key][j] # bindings[key][i])
            => bindings[key][i].func \in LiveEvaluators(last.arg)

\* a descriptor with if = false and evaluators below it was rendered inside
\* a parent whose other evaluator was called and registered
C11_Witness ==
  /\ last.op = "render" /\ last.err = <<>>
  /\ last.arg = Holder /\ Len(last.sites) = 1 /\ ~isServer /\ bindings # <<>>

---------------------------------------------------------------------------
(* More claims about bindings (SpecBind) *)

\* C12: a write to a hook with no entry in the registry stores the written
\* fields in the slice of the hook, leaves the other slices, the document
\* and the registry as they were and emits nothing.
C12_UnboundWriteTouchesStoreOnly ==
  (last.op = "write" /\ EntriesOf(last.pre.bindings, last.hook) = <<>>) =>
    /\ last.err = <<>> /\ last.emits = <<>>
    /\ dom = last.pre.dom /\ bindings = last.pre.bindings
    /\ \A k \in DOMAIN last.arg.f : GetProp(get(data, last.hook), k) = last.arg.f[k]
    /\ \A h \in Hooks \ {last.hook} : get(data, h) = get(last.pre.data, h)

\* a write to u changed the store while elements were bound to p only
C12_Witness ==
  /\ last.op = "write" /\ last.hook = <<"u">> /\ data # last.pre.data
  /\ EntriesOf(last.pre.bindings, <<"u">>) = <<>>
  /\ EntriesOf(last.pre.bindings, <<"p">>) # <<>>

\* the entries of seq that are in other, in the order of seq
Among(seq, other) ==
  SelectSeq(seq, LAMBDA entry : \E j \in 1..Len(other) : other[j] = entry)

\* C15: a write re-applies the entries under its hook in the order the
\* registry held them; whatever an operation purges or registers, the
\* entries that remain under a tether keep their relative order and stay
\* ahead of the entries registered since.
C15_RegistrationOrderKept ==
  /\ last.op = "write" =>
        \A i \in 1..Len(last.emits) : \A j \in 1..Len(last.emits) :
          LET was == EntriesOf(last.pre.bindings, last.hook)
          IN i < j => \E a \in 1..Len(was) : \E b \in 1..Len(was) :
                        /\ a < b
                        /\ was[a] = last.emits[i].binding /\ was[b] = last.emits[j].binding
  /\ last.op \in {"write", "render"} =>
        \A key \in DOMAIN last.pre.bindings :
          LET was == last.pre.bindings[key]
              now == EntriesOf(bindings, key)
          IN /\ Among(was, now) = Among(now, was)
             /\ SubSeq(now, 1, Len(Among(now, was))) = Among(now, was)

\* a write re-applied three entries under one tether, purged one of them
\* and registered a new one
C15_Witness ==
  /\ last.op = "write" /\ Len(last.emits) >= 3
  /\ LET was == EntriesOf(last.pre.bindings, last.hook)
         now == EntriesOf(bindings, last.hook)
     IN /\ Len(Among(was, now)) >= 2
        /\ Len(Among(was, now)) < Len(was)
        /\ Len(Among(now, was)) < Len(now)

\* C16: a write that follows a write to the same hook notifies again, also
\* when it carries the same value and leaves the store as it was: every
\* entry under the hook is re-applied once more, with the value its
\* evaluator gives for the store's slice.
C16_EveryWriteNotifies ==
  (/\ last.op = "write" /\ last.err = <<>>
   /\ last.prev.op = "write" /\ last.prev.hook = last.hook) =>
     /\ Len(last.emits) = Len(EntriesOf(last.pre.bindings, last.hook))
     /\ \A i \in 1..Len(last.emits) :
           /\ last.emits[i].binding = last.pre.bindings[last.hook][i]
           /\ last.emits[i].arg = get(data, last.hook)
           /\ last.emits[i].value = evaluate(last.emits[i].binding.func, get(data, last.hook))

\* the second of two writes of one value to one hook re-applied a binding
C16_Witness ==
  /\ last.op = "write" /\ last.err = <<>>
  /\ last.prev.op = "write" /\ last.prev.hook = last.hook /\ last.prev.arg = last.arg
  /\ data = last.pre.data
  /\ Len(last.emits) >= 1

---------------------------------------------------------------------------
(* Claims about binding sites (SpecRender) *)

\* the first parameter an evaluator declares: the name before the arrow, or
\* the first name between the parentheses
DeclaredParam(src) ==
  IF src[1] \in IdentChars THEN <<src[1]>> ELSE <<src[indexOf(src, "(") + 2]>>

\* C13: every binding site a render visits is keyed under the first
\* parameter name of its evaluator: the registry entry on the client, the
\* data-listener-id attribute on the server.
C13_KeyedUnderDeclaredParameter ==
  (last.op = "render" /\ last.err = <<>>) =>
    \A i \in 1..Len(last.sites) :
      LET site == last.sites[i]
          tether == DeclaredParam(site.func.s)
      IN /\ site.listenerId = tether
         /\ IF isServer
            THEN /\ hasAttribute(dom[site.element].attrs,
                                 <<"d","a","t","a","-","l","i","s","t","e","n","e","r","-","i","d">>)
                 /\ getAttribute(dom[site.element].attrs,
                                 <<"d","a","t","a","-","l","i","s","t","e","n","e","r","-","i","d">>)
                      = tether
            ELSE \E j \in 1..Len(EntriesOf(bindings, tether)) :
                    bindings[tether][j] = [element |-> site.element, func |-> site.func,
                                           property |-> site.property]

\* C14: a render of a descriptor that is not pruned completes and returns
\* the element, and has called each of its evaluators once, with the value
\* the store holds at the evaluator's tether, absent included.
C14_EvaluatedOnceAgainstStore ==
  (last.op = "render" /\ GetProp(last.arg, kIf) # Bool(FALSE)) =>
    /\ last.err = <<>> /\ last.node # 0
    /\ \A func \in LiveEvaluators(last.arg) :
          Cardinality({i \in 1..Len(last.sites) : last.sites[i].func = func}) = 1
    /\ \A i \in 1..Len(last.sites) :
          last.sites[i].arg = get(last.pre.data, DeclaredParam(last.sites[i].func.s))

\* C17: re-applying an evaluator's result leaves the target as the initial
\* application of the same result to the same target would: after a write
\* that re-applied one entry, the document is what the application step of
\* the render pass makes of the document before the write, for every
\* result, null included.
C17_ReapplicationMatchesInitial ==
  (last.op = "write" /\ last.err = <<>> /\ Len(last.emits) = 1) =>
     dom = applyResult(State(data, last.pre.dom, last.pre.bindings),
                       last.emits[1].binding.element, last.emits[1].binding.property,
                       last.emits[1].value, last.hook, Zero).dom

---------------------------------------------------------------------------
(* Claims about the load of a rendered page (SpecHydrate) *)

\* the entries of the registry, each with the tether it is under
Hydrated ==
  UNION {{[listenerId |-> key, element |-> bindings[key][i].element,
           func |-> bindings[key][i].func, property |-> bindings[key][i].property] :
            i \in 1..Len(bindings[key])} : key \in DOMAIN bindings}

\* C18: after the load of a page rendered on the server, every binding
\* site the render pass visited has a live entry in the registry for its
\* element and the source of its evaluator, whatever the store held when
\* the page was rendered.
C18_EverySiteHydrated ==
  last.op = "hydrate" =>
    \A i \in 1..Len(last.sites) :
      \E entry \in Hydrated :
        /\ entry.element = last.sites[i].element
        /\ entry.func.s = ToStr(last.sites[i].func)

\* C19: every entry the load of a page registers is under the tether its
\* binding site was declared with.
C19_HydratedUnderOwnTether ==
  last.op = "hydrate" =>
    \A entry \in Hydrated :
      \E i \in 1..Len(last.sites) :
        /\ last.sites[i].element = entry.element
        /\ ToStr(last.sites[i].func) = entry.func.s
        /\ last.sites[i].listenerId = entry.listenerId

\* C20: every entry the load of a page registers names the property its
\* binding site was rendered with.
C20_HydratedPropertyName ==
  last.op = "hydrate" =>
    \A entry \in Hydrated :
      \E i \in 1..Len(last.sites) :
        /\ last.sites[i].element = entry.element
        /\ ToStr(last.sites[i].func) = entry.func.s
        /\ last.sites[i].property = entry.property

\* C21: whatever strings the store holds, the snapshot stays inside the
\* string literal and the script element it was written into, and the
\* store of the loaded page equals the store the server rendered from.
C21_SnapshotSeedsSameStore ==
  (last.op = "hydrate" /\ DOMAIN last.pre.data.f # {}) =>
     /\ last.kind = "loaded"
     /\ data = last.pre.data

\* the values the evaluators are compared on
EvaluatorInputs == {Null, NameOf(Jo), Blank}

\* C22: the function the load of a page rebuilds from an evaluator's source
\* text returns what the evaluator of the binding site returns, on every
\* input, also when the evaluator refers to a name of its enclosing scope.
C22_ReconstructedEvaluatorAgrees ==
  last.op = "hydrate" =>
    \A entry \in Hydrated : \A i \in 1..Len(last.sites) :
      (entry.element = last.sites[i].element /\ entry.func.s = ToStr(last.sites[i].func)) =>
         \A x \in EvaluatorInputs :
            evaluate(entry.func, x) = evaluate(last.sites[i].func, x)

\* the elements of the loaded page that carry the attribute JunkKey
Junked ==
  {n \in 1..Len(dom) : dom[n].kind = "element" /\ hasAttribute(dom[n].attrs, JunkKey)}

\* C23: when the scan of a loaded page runs, an attribute with the reserved
\* prefix whose value is not the source of a function yields no entry and
\* no error, and every binding site of the page, on the same element or
\* elsewhere, still has its entry.
C23_UnrecoverableAttributeSkipped ==
  (last.op = "hydrate" /\ last.kind = "loaded" /\ DOMAIN last.pre.data.f # {}) =>
     /\ last.err = <<>>
     /\ \A i \in 1..Len(last.sites) :
           \E entry \in Hydrated :
             /\ entry.element = last.sites[i].element
             /\ entry.func.s = ToStr(last.sites[i].func)
             /\ entry.listenerId = getAttribute(dom[entry.element].attrs, ListenerAttr)
     /\ \A entry \in Hydrated :
           /\ entry.property # boundProperty(JunkKey)
           /\ entry.func.s \in ValidSources

\* a page was loaded whose element has the unrecoverable attribute between
\* two bindings, and both bindings were registered
C23_Witness ==
  /\ last.op = "hydrate" /\ last.kind = "loaded"
  /\ \E n \in Junked :
        /\ Cardinality({entry \in Hydrated : entry.element = n}) = 2
        /\ \E i \in 1..Len(dom[n].attrs) : \E j \in 1..Len(dom[n].attrs) :
              \E k \in 1..Len(dom[n].attrs) :
                /\ i < j /\ j < k
                /\ dom[n].attrs[j].name = JunkKey
                /\ startsWith(dom[n].attrs[i].name, BindPrefix)
                /\ startsWith(dom[n].attrs[k].name, BindPrefix)

---------------------------------------------------------------------------
(* Claims about serialized descriptors (SpecConvert) *)

---------------------------------------------------------------------------
(* Claims about the markup a server returns (SpecServe) *)

\* the script elements below n in document order
ScriptsBelow(n) == querySelectorAll(dom, n, <<"s","c","r","i","p","t">>)

\* the bootstrap scripts below n in document order
BootstrapsBelow(n) ==
  SelectSeq(ScriptsBelow(n), LAMBDA k : dom[k].text # <<>> /\ dom[k].text[1] = "App.init()")

\* C25: a server render of a descriptor whose root is html returns markup
\* with exactly one bootstrap script, which is the first script element of
\* body in document order, wherever the other scripts of body are.
C25_OneBootstrapBeforeScripts ==
  (last.op = "render" /\ isServer /\ tagOf(last.arg) = <<"h","t","m","l">>) =>
     /\ last.err = <<>> /\ last.kind = "markup"
     /\ Len(BootstrapsBelow(last.node)) = 1
     /\ \E body \in 1..Len(dom) :
           /\ dom[body].tagName = <<"b","o","d","y">> /\ dom[body].parent = last.node
           /\ ScriptsBelow(body)[1] = BootstrapsBelow(last.node)[1]

\* C26: a render on the server returns markup from the root call alone,
\* which runs at depth 0 and returns last; every render it reaches through
\* children, child, prepend and append, at any level, runs at another
\* depth and returns a node, and a bootstrap script is added only for a
\* root that is html.
C26_OnlyRootReturnsMarkup ==
  (last.op = "render" /\ isServer /\ last.err = <<>>) =>
     /\ last.kind = "markup"
     /\ last.calls # <<>>
     /\ last.calls[Len(last.calls)] = [depth |-> Zero, node |-> last.node, kind |-> "markup"]
     /\ \A i \in 1..(Len(last.calls) - 1) :
           /\ last.calls[i].depth # Zero
           /\ last.calls[i].kind = "node"
     /\ Len(BootstrapsBelow(last.node)) =
           IF tagOf(last.arg) = <<"h","t","m","l">> THEN 1 ELSE 0

\* a server render reached an html descriptor through child, and others
\* through prepend, append and children two levels down
C26_Witness ==
  /\ last.op = "render" /\ isServer /\ last.err = <<>>
  /\ last.arg = Framed
  /\ Len(last.calls) = 6
  /\ \E n \in 1..Len(dom) :
        dom[n].tagName = <<"h","t","m","l">> /\ dom[n].parent = last.node

---------------------------------------------------------------------------
(* Descriptor trees without evaluators (SpecMirror) *)

Hi == Str(<<"H", "i">>)

\* { tagName: "p", textContent: "Hi" }
Leaf == Desc(<<kTagName, kTextContent>>, <<Tag(<<"p">>), Hi>>)

\* { tagName: "li", textContent: text }
Li(text) == Desc(<<kTagName, kTextContent>>, <<Tag(<<"l","i">>), Str(text)>>)

\* { children: ["Hi", { tagName: "p", textContent: "Yo" }, <Pruned>,
\*               { tagName: "ul", children: [<li a>, <li b>] }] }
Mixed ==
  Desc(<<kChildren>>,
       <<Arr(<<Hi,
               Desc(<<kTagName, kTextContent>>, <<Tag(<<"p">>), Str(<<"Y", "o">>)>>),
               Pruned,
               Desc(<<kTagName, kChildren>>,
                    <<Tag(<<"u","l">>), Arr(<<Li(<<"a">>), Li(<<"b">>)>>)>>)>>)>>)

\* the descriptor trees without evaluators: scenario C, a leaf, a tree of
\* strings and elements three levels deep under a root without tag name,
\* an empty descriptor, a string, and a pruned descriptor
Trees == {Static, Leaf, Mixed, Desc(<<>>, <<>>), Hi, Pruned}

\* renders of these trees, on the server and on the client, and writes
NextMirror ==
  \/ \E h \in Hooks : \E value \in Values(h) : Write(h, value)
  \/ \E template \in Trees : Render(template, Undefined)

SpecMirror == Init /\ [][NextMirror]_vars

\* the items of a descriptor's children that are not pruned
Kept(item) ==
  IF GetProp(item, kChildren).t = "array"
  THEN SelectSeq(Items(GetProp(item, kChildren)), LAMBDA child : ~IsPruned(child))
  ELSE <<>>

RECURSIVE TreeSize(_)
RECURSIVE TreeSizes(_, _)
\* the nodes a descriptor tree stands for: one per string, one per object
\* descriptor not pruned, one for the text of a textContent
TreeSize(item) ==
  IF item.t = "string" THEN 1
  ELSE 1 + TreeSizes(Kept(item), 1)
         + (IF GetProp(item, kTextContent).t = "string" THEN 1 ELSE 0)

TreeSizes(items, i) ==
  IF i > Len(items) THEN 0 ELSE TreeSize(items[i]) + TreeSizes(items, i + 1)

RECURSIVE TreeMirrors(_, _, _)
\* node n of d and all below it are what the descriptor tree item says
TreeMirrors(d, n, item) ==
  IF item.t = "string"
  THEN d[n].kind = "text" /\ d[n].text = item.s /\ d[n].kids = <<>>
  ELSE /\ d[n].kind = "element"
       /\ d[n].tagName = (IF GetProp(item, kTagName).t = "string"
                           THEN GetProp(item, kTagName).s ELSE <<"d","i","v">>)
       /\ IF GetProp(item, kTextContent).t = "string"
          THEN /\ Len(d[n].kids) = 1
               /\ d[d[n].kids[1]].kind = "text"
               /\ d[d[n].kids[1]].text = GetProp(item, kTextContent).s
          ELSE /\ Len(d[n].kids) = Len(Kept(item))
               /\ \A i \in 1..Len(Kept(item)) :
                     /\ d[d[n].kids[i]].parent = n
                     /\ TreeMirrors(d, d[n].kids[i], Kept(item)[i])

---------------------------------------------------------------------------
(* Attributes applied again (SpecAttr) *)

kId == <<"i","d">>

kDataId == <<"d","a","t","a","I","d">>

\* { tagName: "div", id: "x", class: (p) => p && p.n, title: "t" }
Keyed ==
  Desc(<<kTagName, kId, <<"c","l","a","s","s">>, <<"t","i","t","l","e">>>>,
       <<Tag(<<"d","i","v">>), Str(<<"x">>), Fn(SrcName("p")), Str(<<"t">>)>>)

\* { tagName: "svg", width: "1", viewBox: (p) => p && p.n }
Boxed ==
  Desc(<<kTagName, <<"w","i","d","t","h">>, <<"v","i","e","w","B","o","x">>>>,
       <<Tag(<<"s","v","g">>), Str(<<"1">>), Fn(SrcName("p"))>>)

\* { tagName: "div", id: "x", dataId: (p) => p && p.n }
Camel ==
  Desc(<<kTagName, kId, kDataId>>, <<Tag(<<"d","i","v">>), Str(<<"x">>), Fn(SrcName("p"))>>)

\* { tagName: "div", dataid: "k", dataId: (p) => p && p.n }
Cased ==
  Desc(<<kTagName, Lower(kDataId), kDataId>>,
       <<Tag(<<"d","i","v">>), Str(<<"k">>), Fn(SrcName("p"))>>)

\* elements with one attribute bound to p beside plain attributes
Attributed == {Keyed, Boxed, Camel, Cased}

\* renders of these elements, and writes that apply the bound key again
NextAttr ==
  \/ \E h \in Hooks : \E value \in Values(h) : Write(h, value)
  \/ \E template \in Attributed : Render(template, Undefined)

SpecAttr == Init /\ [][NextAttr]_vars

\* the attributes of attrs that are not named name, in order
Others(attrs, name) == SelectSeq(attrs, LAMBDA a : a.name # name)

\* C28: when a write has applied a non-reserved key k to a target, the
\* target has exactly one attribute k, its value is the value just applied
\* and nothing of an earlier one, and the other attributes of the target
\* are as they were before the write.
C28_KeyAppliedReplacesOnly ==
  (last.op = "write" /\ last.err = <<>>) =>
     \A i \in 1..Len(last.emits) :
        LET b == last.emits[i].binding
        IN b.property \notin nonAttributes =>
             /\ SelectSeq(dom[b.element].attrs, LAMBDA a : a.name = b.property)
                  = <<[name |-> b.property, value |-> ToStr(last.emits[i].value)]>>
             /\ Others(dom[b.element].attrs, b.property)
                  = Others(last.pre.dom[b.element].attrs, b.property)

---------------------------------------------------------------------------
(* Renders given a mount target (SpecMount) *)

\* the descriptors mounted: scenario C, an element with attributes, one
\* with child, prepend and append, and a bound span
Mounted == {Static, Keyed, Framed, BoundSpan(SrcName("p"))}

\* the mount targets: a selector and a callback
Targets == {Str(<<"b","o","d","y">>), MountCallback}

\* renders given a mount target, and writes
NextMount ==
  \/ \E h \in Hooks : \E value \in Values(h) : Write(h, value)
  \/ \E template \in Mounted : \E target \in Targets : Render(template, target)

SpecMount == Init /\ [][NextMount]_vars

\* the element a render without mount target builds from the same state
Unmounted(pre, template) ==
  render(State(pre.data, pre.dom, pre.bindings), template, Undefined, Zero).st.dom[Len(pre.dom) + 1]

\* the attachment m was made by the root call, of the root element as the
\* render builds it, and nothing was applied to the element afterwards
AttachedBuilt(m, root, whole) ==
  /\ m.depth = Zero
  /\ m.element = root
  /\ m.attrs = whole.attrs /\ m.kids = whole.kids
  /\ dom[root].attrs = m.attrs /\ dom[root].kids = m.kids
  /\ dom[root].parent = m.target
  /\ dom[m.target].kids = Append(last.pre.dom[m.target].kids, root)

\* C29: a client render given a mount target that exists makes exactly one
\* attachment, in the root call and of the root element with all its
\* attributes and children applied: under the element the selector
\* matches, or by one call of the callback; the nested renders attach
\* nothing.
C29_MountAttachesBuiltRoot ==
  (/\ last.op = "render" /\ ~isServer /\ Truthy(last.target)
   /\ last.target.t = "string" => documentQuerySelector(last.pre.dom, last.target.s) # 0) =>
     /\ last.err = <<>>
     /\ Len(last.mounts) = 1
     /\ AttachedBuilt(last.mounts[1], Len(last.pre.dom) + 1, Unmounted(last.pre, last.arg))
     /\ IF last.target.t = "function"
        THEN last.mounts[1].by = "callback"
        ELSE /\ last.mounts[1].by = "selector"
             /\ last.mounts[1].target = documentQuerySelector(last.pre.dom, last.target.s)
     /\ \A i \in 1..(Len(last.calls) - 1) : last.calls[i].depth # Zero

\* the callback was given the element built from the descriptor with
\* child, prepend and append, after five nested renders
C29_Witness ==
  /\ last.op = "render" /\ ~isServer /\ last.err = <<>>
  /\ last.arg = Framed /\ last.target = MountCallback
  /\ Len(last.calls) = 6
  /\ Len(last.mounts) = 1
  /\ Len(last.mounts[1].kids) = 3

---------------------------------------------------------------------------
(* Render passes of several requests in one process (SpecShare) *)

\* the render passes one process serves
MaxPasses == 2

\* the pages requested: a span bound to p, a span bound to u
Requested == {PageOf(BoundSpan(SrcName("p"))), PageOf(BoundSpan(SrcName("u")))}

\* the writes and render passes of the requests, in any order: the module,
\* and with it the store, is the same for all of them
NextShare ==
  \/ \E h \in Hooks : \E value \in Values(h) : Write(h, value)
  \/ \E template \in Requested : Rendering(template, Undefined, MaxPasses)

SpecShare == Init /\ [][NextShare]_vars

\* the text between JSON.parse(' and ') of a bootstrap script
Embedded(text) == IF Len(text) > 4 THEN SubSeq(text, 3, Len(text) - 2) ELSE <<>>

\* C30: a server render pass works on the store as all earlier writes left
\* it and leaves it as it is: each evaluator is called with the slice the
\* store holds for its hook, and a write made just before the pass, by
\* whichever request, is what the evaluators of that hook are given and is
\* in the snapshot embedded in the markup of the pass.
C30_StoreSharedByPasses ==
  (last.op = "render" /\ isServer /\ last.err = <<>>) =>
     /\ data = last.pre.data
     /\ \A i \in 1..Len(last.sites) :
           last.sites[i].arg = get(last.pre.data, last.sites[i].listenerId)
     /\ (last.prev.op = "write" /\ last.prev.absent) =>
           /\ \A i \in 1..Len(last.sites) :
                 last.sites[i].listenerId = last.prev.hook =>
                    last.sites[i].arg = last.prev.arg
           /\ bootstrapOf(dom, last.node) # 0
           /\ get(parse(Embedded(dom[bootstrapOf(dom, last.node)].text)), last.prev.hook)
                = last.prev.arg

\* the second render pass of the process follows a write of p made after
\* the first pass: its span shows "Jo" and its snapshot holds p
C30_Witness ==
  /\ last.op = "render" /\ isServer /\ last.err = <<>>
  /\ count.renders = 2
  /\ last.prev.op = "write" /\ last.prev.hook = <<"p">> /\ last.prev.arg = NameOf(Jo)
  /\ last.arg = PageOf(BoundSpan(SrcName("p")))
  /\ Len(last.sites) = 1
  /\ \E n \in 1..Len(dom) :
        /\ RootOf(dom, n) = last.node
        /\ dom[n].kind = "text" /\ dom[n].text = <<"J", "o">>

---------------------------------------------------------------------------
(* Render calls that fail (SpecFail) *)

\* { tagName: "span", class: (p) => p && p.n, title: "(p) => p &&" }
Marked ==
  Desc(<<kTagName, <<"c","l","a","s","s">>, <<"t","i","t","l","e">>>>,
       <<Tag(<<"s","p","a","n">>), Fn(SrcName("p")), Str(BrokenSrc)>>)

\* descriptors whose render can fail: an evaluator that raises on an absent
\* slice, a string that looks like an evaluator and is not valid source,
\* alone and after a bound key; and a span whose render succeeds
Failing == {BoundSpan(SrcRaw("p")), Titled(BrokenSrc), Marked, BoundSpan(SrcName("p"))}

\* renders of these descriptors, and writes
NextFail ==
  \/ \E h \in Hooks : \E value \in Values(h) : Write(h, value)
  \/ \E template \in Failing : Render(template, Undefined)

SpecFail == Init /\ [][NextFail]_vars

\* C32: when a render call fails, the store and the binding registry are
\* as they were before the call: no entry is left for an element of the
\* tree that was never returned.
C32_FailedRenderLeavesNoTrace ==
  (last.op = "render" /\ last.err # <<>>) =>
     /\ data = last.pre.data
     /\ bindings = last.pre.bindings

---------------------------------------------------------------------------
(* Notifications that re-render children (SpecNotify) *)

\* descriptors whose children are rendered again by a write to p: the
\* children hold a span bound to p, or to u
Notified == {Roster, BoundList(SrcSpans("p", "u")), BoundSpan(SrcName("p"))}

\* renders of these descriptors, and writes
NextNotify ==
  \/ \E h \in Hooks : \E value \in Values(h) : Write(h, value)
  \/ \E template \in Notified : Render(template, Undefined)

SpecNotify == Init /\ [][NextNotify]_vars

\* emit j of the last write rendered the children of its element again and
\* so detached element, a child of it before the write
Replaced(j, element) ==
  /\ last.emits[j].binding.property \in {kChildren, kChild}
  /\ last.pre.dom[element].parent = last.emits[j].binding.element
  /\ dom[element].parent # last.emits[j].binding.element

\* C33: in the notification of a write, no evaluator is applied to an
\* element after an earlier step of the same notification has rendered
\* the children of its parent again and detached it.
C33_NoEmitAfterPurge ==
  last.op = "write" =>
    \A i \in 1..Len(last.emits) : \A j \in 1..(i - 1) :
       ~Replaced(j, last.emits[i].binding.element)

\* the entries of a registry under a key
Registered(bs, key) == IF key \in DOMAIN bs THEN bs[key] ELSE <<>>

\* C34: a write to h returns having applied the entries registered under
\* h when it began, each once and in their order; an entry registered
\* under h while the notification ran is in the registry afterwards and
\* was not applied.
C34_NotifiesStartingEntriesOnce ==
  (last.op = "write" /\ last.err = <<>>) =>
     /\ Len(last.emits) = Len(Registered(last.pre.bindings, last.hook))
     /\ \A i \in 1..Len(last.emits) :
           last.emits[i].binding = Registered(last.pre.bindings, last.hook)[i]
     /\ \A k \in 1..Len(Registered(bindings, last.hook)) :
           (\A i \in 1..Len(Registered(last.pre.bindings, last.hook)) :
               Registered(bindings, last.hook)[k] # Registered(last.pre.bindings, last.hook)[i])
           => \A i \in 1..Len(last.emits) :
                 last.emits[i].binding # Registered(bindings, last.hook)[k]

\* a write to p rendered children again and so registered a new entry
\* under p, which the write did not apply
C34_Witness ==
  /\ last.op = "write" /\ last.err = <<>> /\ last.hook = <<"p">>
  /\ Len(last.emits) >= 2
  /\ \E k \in 1..Len(Registered(bindings, last.hook)) :
        /\ Registered(bindings, last.hook)[k].element > Len(last.pre.dom)
        /\ \A i \in 1..Len(last.emits) :
              last.emits[i].binding # Registered(bindings, last.hook)[k]

---------------------------------------------------------------------------
(* Writes of parsed JSON objects (SpecTaint) *)

kConstructor == <<"c","o","n","s","t","r","u","c","t","o","r">>

\* JSON.parse('{"__proto__": {"u": "x"}}'): __proto__ is an own property
Tainted == Obj(ProtoKey :> Obj(<<"u">> :> Str(<<"x">>)))

\* JSON.parse('{"constructor": {"u": "x"}}')
Built == Obj(kConstructor :> Obj(<<"u">> :> Str(<<"x">>)))

\* the objects written to a hook
Parsed(h) == IF h = <<"p">> THEN {NameOf(Jo), Tainted, Built} ELSE {NameOf(Ann)}

\* the tethers read: the hooks, and paths below them
Watched ==
  {<<"p">>, <<"u">>, <<"p", ".", "n">>, <<"u", ".", "n">>, <<"p", ".", "u">>,
   <<"u", ".", "u">>}

\* writes of parsed objects, and reads
NextTaint ==
  \/ \E h \in Hooks : \E value \in Parsed(h) : Write(h, value)
  \/ \E tether \in Watched : Read(tether)

SpecTaint == Init /\ [][NextTaint]_vars

\* the tether does not lead into the slice of hook h
Foreign(tether, h) == split(tether, ".")[1] # h

\* C35: a write to h leaves what read returns unchanged for every tether
\* that does not lead into the slice of h, whether it was present or absent
\* before, also when the object written has a __proto__ or constructor key.
C35_WriteChangesOwnSliceOnly ==
  [][(last'.op = "write" /\ last'.err = <<>>) =>
        \A tether \in Watched :
           Foreign(tether, last'.hook) => get(data, tether)' = get(data, tether)]_vars

\* C36: when a write to h of an object A directly follows a write to h of
\* the same A, it leaves the store as the first write left it.
C36_WriteIdempotent ==
  (/\ last.op = "write" /\ last.err = <<>>
   /\ last.prev.op = "write" /\ last.prev.hook = last.hook /\ last.prev.arg = last.arg) =>
     data = last.pre.data

\* the registry a scan of the loaded document yields
Reconstructed == scanElements(<<>>, dom, listenerElements(dom, last.node), 1)

\* C37: when the script of a page rendered from a non-empty store has run
\* to its end, the replay of the snapshot has applied no evaluator, the
\* document is the one the server rendered, and the registry holds exactly
\* the entries the scan reconstructs from that document.
C37_SeedingAppliesNothing ==
  (last.op = "hydrate" /\ last.kind = "loaded" /\ DOMAIN last.pre.data.f # {}) =>
     /\ last.emits = <<>>
     /\ dom = last.pre.dom
     /\ bindings = Reconstructed

C37_Witness ==
  /\ last.op = "hydrate" /\ last.kind = "loaded"
  /\ DOMAIN data.f # {}
  /\ \E entry \in Hydrated :
        /\ entry.listenerId \in DOMAIN data.f
        /\ hasAttribute(dom[entry.element].attrs, <<"c","l","a","s","s">>)

---------------------------------------------------------------------------
(* The layout of a server-rendered document: src/layout.html.js.  A string
   is a sequence of tokens as everywhere else; "/" is always a token of its
   own, and "_$" is one token.  The disk is the set of the files that exist,
   each named by its path below the working directory.  The constructors of
   elements.html.js keep what they are given. *)

\* array.join(sep), the parts being strings
RECURSIVE join(_, _)
join(parts, sep) ==
  IF parts = <<>> THEN <<>>
  ELSE IF Len(parts) = 1 THEN parts[1]
  ELSE parts[1] \o <<sep>> \o join(Tail(parts), sep)

\* `${array[i]}`, i counted from 0: "undefined" outside the array
Templated(array, i) ==
  IF i + 1 \in 1..Len(array) THEN array[i + 1] ELSE <<"undefined">>

\* path.resolve(process.cwd(), file) and path.join(process.cwd(), file),
\* as a path below the working directory: empty segments are dropped
resolved(file) == join(SelectSeq(split(file, "/"), LAMBDA part : part # <<>>), "/")

\* fs.existsSync
existsSync(disk, file) == resolved(file) \in disk

\* the segments of the request path
urlPathsOf(params) ==
  IF params.path = <<"/">> THEN <<<<"home">>>>
  ELSE SelectSeq(split(params.path, "/"),
                 LAMBDA part : part # <<>> /\ Str(part) # params.pathModifier)

\* the loop that fills filepaths, from index i (counted from 0) on
RECURSIVE pushed(_, _, _)
pushed(urlPaths, wildcard, i) ==
  IF i >= Len(urlPaths) THEN <<>>
  ELSE (IF \/ Truthy(wildcard) /\ wildcard # Str(<<"none">>) /\ i = Len(urlPaths) - 1
           \/ urlPaths[i + 1] = <<"*">>
        THEN <<join(slice(SubSeq(urlPaths, 1, i + 1), 0, -2), "/") \o <<"/">>
                 \o Templated(urlPaths, i - 1) \o <<"_$">>,
               join(slice(SubSeq(urlPaths, 1, i + 1), 0, -1), "/") \o <<"/">>
                 \o Templated(urlPaths, i - 1) \o <<"_$">>>>
        ELSE <<join(SubSeq(urlPaths, 1, i + 1), "/"),
               join(SubSeq(urlPaths, 1, i + 1), "/") \o <<"/">> \o urlPaths[i + 1]>>)
       \o pushed(urlPaths, wildcard, i + 1)

\* if (!params.inherit) { ... }: the file paths kept, or the error raised
narrowed(filepaths, inherit) ==
  IF Truthy(inherit) THEN [v |-> filepaths, err |-> <<>>]
  ELSE IF filepaths = <<>> THEN [v |-> filepaths, err |-> <<"TypeError">>]
  ELSE IF includes(filepaths[Len(filepaths)], "_$")
    THEN [v |-> SelectSeq(filepaths, LAMBDA path : includes(path, "_$")), err |-> <<>>]
  ELSE IF Len(filepaths) > 2
    THEN [v |-> SubSeq(filepaths, Len(filepaths) - 1, Len(filepaths)), err |-> <<>>]
  ELSE [v |-> filepaths, err |-> <<>>]

Dist == <<"dist">>

\* `${dist}/styles/pages/${formattedPath}.critical.css`, .base.css likewise
PageStyle(formattedPath, suffix) ==
  Dist \o <<"/", "styles", "/", "pages", "/">> \o formattedPath \o <<suffix>>

\* `${dist}/scripts/${formattedPath}.scripts.js`
PageScript(formattedPath) ==
  Dist \o <<"/", "scripts", "/">> \o formattedPath \o <<".scripts.js">>

\* the files of a list that exist, each with a leading "/"
Existing(disk, files) ==
  SelectSeq([i \in 1..Len(files) |-> <<"/">> \o files[i]],
            LAMBDA file : existsSync(disk, file))

criticalsOf(disk, filepaths) ==
  Existing(disk, <<Dist \o <<"/", "styles", "/", "critical.css">>>>
                   \o [i \in 1..Len(filepaths) |-> PageStyle(filepaths[i], ".critical.css")])

basesOf(disk, filepaths) ==
  Existing(disk, <<Dist \o <<"/", "styles", "/", "base.css">>>>
                   \o [i \in 1..Len(filepaths) |-> PageStyle(filepaths[i], ".base.css")])

scriptsOf(disk, filepaths) ==
  Existing(disk, <<Dist \o <<"/", "scripts", "/", "base.scripts.js">>>>
                   \o [i \in 1..Len(filepaths) |-> PageScript(filepaths[i])])

\* Array.isArray(v) ? v : v ? Array.of(v) : [], as the strings listed
arrayOf(v) ==
  IF v.t = "array" THEN [i \in 1..Len(Items(v)) |-> Items(v)[i].s]
  ELSE IF Truthy(v) THEN <<v.s>>
  ELSE <<>>

\* in production with a CDN, a path with a leading "/" gets the CDN's URL
\* in front
prefixed(env, href) ==
  IF env.production /\ Truthy(env.cdn) /\ startsWith(href, <<"/">>)
  THEN env.cdn.s \o href ELSE href

\* an element of the head or a script of the body
Chip(kind, href, text) == [kind |-> kind, href |-> href, text |-> text]

\* if (href.startsWith("//")) href = href.slice(1)
Single(href) ==
  IF startsWith(href, <<"/", "/">>) THEN SubSeq(href, 2, Len(href)) ELSE href

\* what a file holds
Contents(file) == <<"{">> \o file \o <<"}">>

\* the forEach over the critical styles, from critical[i] on: each file is
\* read, and reading a file that does not exist raises
RECURSIVE inlined(_, _, _, _)
inlined(disk, env, critical, i) ==
  IF i > Len(critical) THEN [v |-> <<>>, err |-> <<>>]
  ELSE IF ~existsSync(disk, Single(critical[i])) THEN [v |-> <<>>, err |-> <<"ENOENT">>]
  ELSE [v |-> <<IF env.development
                THEN Chip("Stylesheet", Single(critical[i]), <<>>)
                ELSE Chip("Style", <<>>, Contents(resolved(Single(critical[i]))))>>
                \o inlined(disk, env, critical, i + 1).v,
        err |-> inlined(disk, env, critical, i + 1).err]

\* new ServerHead(head), head holding the two meta-free lists of styles:
\* the viewport meta, a link per base style, an element per critical style
ServerHead(disk, env, styles) ==
  [children |->
     <<Chip("Meta", <<>>, <<"viewport">>)>>
     \o [i \in 1..Len(styles.base) |->
           Chip(IF env.development THEN "Link" ELSE "PreLoadStyle",
                Single(styles.base[i]), <<>>)]
     \o inlined(disk, env, styles.critical, 1).v,
   err |-> inlined(disk, env, styles.critical, 1).err]

\* the rest of the constructor once the file paths are known
assembled(params, filepaths) ==
  LET head == ServerHead(params.disk, params.env,
                         [critical |-> criticalsOf(params.disk, filepaths)
                                         \o arrayOf(params.critical),
                          base |-> [i \in 1..Len(basesOf(params.disk, filepaths)
                                                 \o arrayOf(params.base)) |->
                                      prefixed(params.env,
                                             (basesOf(params.disk, filepaths)
                                                \o arrayOf(params.base))[i])]])
  IN [err |-> head.err,
      head |-> IF head.err # <<>> THEN <<>> ELSE head.children,
      body |-> IF head.err # <<>> THEN <<>>
               ELSE [i \in 1..(1 + Len(scriptsOf(params.disk, filepaths))) |->
                       Chip("Module",
                            prefixed(params.env,
                                   (<<<<"/", "component-loader.js">>>>
                                      \o scriptsOf(params.disk, filepaths))[i]),
                            <<>>)]]

\* new Layout(params): the children of the document, or the error raised
Layout(params) ==
  LET filepaths == narrowed(pushed(urlPathsOf(params), params.wildcard, 0), params.inherit)
  IN IF filepaths.err # <<>> THEN [err |-> filepaths.err, head |-> <<>>, body |-> <<>>]
     ELSE assembled(params, filepaths.v)

\* a layout is constructed on the server
Construct(params) ==
  /\ isServer
  /\ \E layout \in {Layout(params)} :
        last' = [NoOp EXCEPT !.op = "layout", !.arg = params, !.result = layout,
                             !.err = layout.err, !.pre = Pre, !.prev = Prev]
  /\ UNCHANGED <<isServer, data, bindings, dom, roots, count, proto>>

\* the requests: "/", "/a", "/a/b", "/m" and "/a/*", and "/a" as a wildcard
\* page
Paths ==
  {[path |-> <<"/">>, wildcard |-> Undefined],
   [path |-> <<"/", "a">>, wildcard |-> Undefined],
   [path |-> <<"/", "a", "/", "b">>, wildcard |-> Undefined],
   [path |-> <<"/", "m">>, wildcard |-> Undefined],
   [path |-> <<"/", "a", "/", "*">>, wildcard |-> Undefined],
   [path |-> <<"/", "a">>, wildcard |-> Str(<<"true">>)]}

\* the files a disk may hold: dist/styles/critical.css,
\* dist/styles/pages/a.critical.css and extra.css
Assets ==
  {Dist \o <<"/", "styles", "/", "critical.css">>, PageStyle(<<"a">>, ".critical.css"),
   <<"extra.css">>}

Development == [development |-> TRUE, production |-> FALSE, cdn |-> Undefined]

Production ==
  [development |-> FALSE, production |-> TRUE, cdn |-> Str(<<"https:", "/", "/", "cdn">>)]

\* styles and environment: no styles in development,
\* { critical: "//extra.css" } in production with a CDN, and
\* { critical: ["/extra.css"], base: "/more.css" } in either
Configured ==
  {[critical |-> Undefined, base |-> Undefined, env |-> Development],
   [critical |-> Str(<<"/", "/", "extra.css">>), base |-> Undefined, env |-> Production],
   [critical |-> Arr(<<Str(<<"/", "extra.css">>)>>), base |-> Str(<<"/", "more.css">>),
    env |-> Development],
   [critical |-> Arr(<<Str(<<"/", "extra.css">>)>>), base |-> Str(<<"/", "more.css">>),
    env |-> Production]}

\* the constructions followed; params.pathModifier is "m"
Requests ==
  {[path |-> p.path, wildcard |-> p.wildcard, pathModifier |-> Str(<<"m">>),
    inherit |-> inherit, critical |-> c.critical, base |-> c.base, disk |-> disk,
    env |-> c.env] :
     p \in Paths, inherit \in {Undefined, Bool(TRUE)}, c \in Configured,
     disk \in SUBSET Assets}

\* layouts constructed one after another
NextLayout == \E params \in Requests : Construct(params)

SpecLayout == Init /\ [][NextLayout]_vars

\* the files the result refers to: those linked and those inlined
Referred ==
  {resolved(last.result.head[i].href) :
     i \in {j \in 1..Len(last.result.head) : last.result.head[j].href # <<>>}}
  \cup {file \in Assets \cup {<<"more.css">>} :
          \E i \in 1..Len(last.result.head) : last.result.head[i].text = Contents(file)}

\* C31: constructing a layout raises nothing whatever files exist and
\* whatever critical and base styles are configured, and the result refers
\* to no file that does not exist.
C31_MissingAssetIsOmitted ==
  last.op = "layout" =>
     /\ last.err = <<>>
     /\ \A file \in Referred :
           file \in Assets \cup {<<"more.css">>} => file \in last.arg.disk

\* C38: with inherit unset, constructing a layout whose configured styles
\* all exist raises nothing, whatever the request path.
C38_EveryPathConstructs ==
  (/\ last.op = "layout" /\ ~Truthy(last.arg.inherit)
   /\ \A i \in 1..Len(arrayOf(last.arg.critical)) :
         existsSync(last.arg.disk, arrayOf(last.arg.critical)[i])) =>
     last.err = <<>>

====
